---- MODULE Spec2Model ----
(***************************************************************************)
(* Quorum registry and selection engine of the Advisory Node Service.      *)
(*                                                                         *)
(* Two storage backends with the same operation contract are modelled:     *)
(*   - MemoryStore (storage/memory_store.go): a map guarded by one mutex;  *)
(*   - DBStore (the gorm-backed store): a relational table "quorums" plus  *)
(*     the append-only table "transaction_history".                        *)
(* A behaviour runs on one backend, chosen when the service is built.      *)
(*                                                                         *)
(* Time is in minutes.  Strings that the code inspects character by        *)
(* character (token names, the JSON text of supported_tokens, the DID) are *)
(* tuples of one-character strings.  A DID is modelled by the characters   *)
(* that follow its fixed prefix.                                           *)
(***************************************************************************)
EXTENDS Integers, Sequences, FiniteSets, TLC

VARIABLES
    backend,    \* "memory" | "db": the store the handlers were built with
    now,        \* wall clock (time.Now()), minutes
    quorums,    \* MemoryStore.quorums: DID -> QuorumInfo (a partial function)
    mu,         \* MemoryStore.mu: the goroutine holding the lock, or NoProc
    peerIndex,  \* MemoryStore.peerIndex: PeerID -> DID (a partial function)
    table,      \* DBStore table "quorums": DID -> row (unique index on did)
    history,    \* DBStore table "transaction_history" (append-only): one
                \* element per row; no operation modelled reads a column
    balanceHistory,
                \* DBStore table "balance_history" (append-only), followed
                \* by the specifications that run the DSA_ actions
    quorumRows, \* DBStore table "quorums" as the set of its rows, each with
                \* its did: followed by the specification of the racing
                \* registrations, which run the DSR_ actions
    pc,         \* per request goroutine: "idle", "locked" (holds mu, method
                \* body not yet run), "assign" (MemoryStore selection between
                \* its sort and its assignment loop), "update" (DBStore
                \* selection between its query and its return)
    local,      \* per request goroutine: count, the selected slice
                \* (availableQuorums, quorums) and the loop index of
                \* GetAvailableQuorums
    resp,       \* what the step just taken returned to its caller: "ok" (a
                \* list) or "error" if it ended a GetAvailableQuorums call,
                \* "not found" if it ended another method with that error,
                \* "invalid" if a handler rejected the request, "storage
                \* error" if a write statement failed; "none" after any
                \* other step
    assigned    \* history variable: DID -> number of successful selections
                \* that returned the record now registered under that DID

vars == <<backend, now, quorums, mu, peerIndex, table, history, balanceHistory, quorumRows,
         pc, local, resp, assigned>>

-----------------------------------------------------------------------------
(* Bounds of the model *)

\* assignment_count grows without limit; a selection succeeds only while the
\* records it returns are below this cap
MaxAssign == 2
\* transaction_history grows without limit; a DB selection gets past its
\* query only while the table holds fewer rows than this
MaxHistory == 2

\* clock readings; consecutive readings are 5, 10 and 15 minutes apart, so a
\* last ping can be 0, 5 (edge of the liveness window), 10 (edge of the stale
\* threshold) or 15 minutes old
Clock == {0, 5, 15}

Procs == {"g1", "g2"}
NoProc == "none"

\* suffixes of the registered identifiers
DIDs == {<<"a", "x">>, <<"b", "y">>}

RBT == <<"R", "B", "T">>
TRI == <<"T", "R", "I">>
\* supported_tokens values sent by nodes (<<>> is an absent list)
TokenLists == {<<>>, <<RBT, TRI>>}
\* ft_name values sent by clients (<<>> is the empty string); the handler
\* passes the query parameter on unchecked, and R_T is a name no node lists
R_T == <<"R", "_", "T">>
FtNames == {<<>>, RBT, TRI, R_T}
\* last_char_tid values sent by clients
LastChars == {<<>>, <<"x">>}
Balances == {7, 10}
\* the peer_id and did_type each node registers with: its own, and one type
PeerOf(did) == IF did[1] = "a" THEN "p1" ELSE "p2"
NodeType == 1
Amounts == {10, 15}
Counts == 0..2

-----------------------------------------------------------------------------
(* Program constants *)

LivenessWindow == 5     \* 5*time.Minute
StaleThreshold == 10    \* 10 * time.Minute
DefaultCount == 7       \* count = 7
ZeroTime == -1          \* the zero time.Time: before every clock reading

-----------------------------------------------------------------------------
(* Strings *)

\* byte order of the characters used in identifiers
Alphabet == <<"a", "b", "x", "y">>

CharCode(c) == CHOOSE i \in 1..Len(Alphabet) : Alphabet[i] = c

\* Go's s < t on strings (also SQL's ORDER BY did ASC on these identifiers)
RECURSIVE StrLess(_, _)
StrLess(s, t) ==
    IF t = <<>> THEN FALSE
    ELSE IF s = <<>> THEN TRUE
    ELSE IF Head(s) = Head(t) THEN StrLess(Tail(s), Tail(t))
    ELSE CharCode(Head(s)) < CharCode(Head(t))

\* SQL LIKE, one pattern character against one character: _ matches any
LikeChar(c, p) == p = "_" \/ p = c

\* SQL s LIKE '%' || pat || '%', for a pat that holds no %
LikeContains(s, pat) ==
    \E i \in 1..(Len(s) - Len(pat) + 1) :
        \A k \in 1..Len(pat) : LikeChar(s[i + k - 1], pat[k])

\* SQL s LIKE '%' || suf, for a suf that holds no %
LikeSuffix(s, suf) ==
    /\ Len(suf) <= Len(s)
    /\ \A k \in 1..Len(suf) : LikeChar(s[Len(s) - Len(suf) + k], suf[k])

Quoted(t) == <<"\"">> \o t \o <<"\"">>

RECURSIVE JoinQuoted(_)
JoinQuoted(tokens) ==
    IF tokens = <<>> THEN <<>>
    ELSE IF Len(tokens) = 1 THEN Quoted(tokens[1])
    ELSE Quoted(tokens[1]) \o <<",">> \o JoinQuoted(Tail(tokens))

\* json.Marshal of a []string: a nil slice is the text null, otherwise the
\* JSON array of the quoted elements
Marshal(tokens) ==
    IF tokens = <<>> THEN <<"n", "u", "l", "l">>
    ELSE <<"[">> \o JoinQuoted(tokens) \o <<"]">>

-----------------------------------------------------------------------------
(* Selection policy shared by the two stores *)

\* faulty variant: one record where no positive count is named
EffectiveCount_One(count) == IF count <= 0 THEN 1 ELSE count

\* count <= 0 is replaced by the default
EffectiveCount(count) == IF count <= 0 THEN DefaultCount ELSE count

\* faulty variant: the quotient truncated to an integer
SufficientBalance_Truncated(balance, transactionAmount, count) ==
    balance >= transactionAmount \div count

\* balance >= transactionAmount / float64(count), decided on the exact quotient
SufficientBalance(balance, transactionAmount, count) ==
    balance * count >= transactionAmount

\* faulty variant: a ping exactly five minutes old still counts
PingedRecently_Inclusive(lastPing, t) == t - lastPing <= LivenessWindow

\* time.Since(LastPing) < 5*time.Minute; last_ping > now - 5 minutes
PingedRecently(lastPing, t) == t - lastPing < LivenessWindow

\* the closure supportsToken of MemoryStore.GetAvailableQuorums
supportsToken(supportedTokens, token) ==
    IF Len(supportedTokens) = 0
    THEN token = <<>> \/ token = RBT
    ELSE \E i \in 1..Len(supportedTokens) : supportedTokens[i] = token

\* the token condition DBStore.GetAvailableQuorums adds to its query, on the
\* stored text of supported_tokens
TokenWhere(stored, ftName) ==
    IF ftName # <<>>
    THEN IF ftName = TRI
         THEN LikeContains(stored, Quoted(TRI))
         ELSE LikeContains(stored, Quoted(ftName)) \/ stored = <<>>
    ELSE LikeContains(stored, Quoted(RBT)) \/ stored = <<>>

\* all orders of the set S
Perms(S) ==
    {s \in [1..Cardinality(S) -> S] : \A i, j \in 1..Cardinality(S) : i # j => s[i] # s[j]}

\* faulty variant: the most assigned record first
FairLess_MostAssignedFirst(q1, q2) ==
    IF q1.AssignmentCount = q2.AssignmentCount
    THEN q1.LastAssignment < q2.LastAssignment
    ELSE q1.AssignmentCount > q2.AssignmentCount

\* the comparison of the load-balancing sort, on two records
FairLess(q1, q2) ==
    IF q1.AssignmentCount = q2.AssignmentCount
    THEN q1.LastAssignment < q2.LastAssignment
    ELSE q1.AssignmentCount < q2.AssignmentCount

\* the less function of the sort for ftName: sorted[i].DID < sorted[j].DID
\* for TRI, else the load-balancing comparison
SortLess(d1, d2, recs, ftName) ==
    IF ftName = TRI THEN StrLess(d1, d2) ELSE FairLess(recs[d1], recs[d2])

\* the sorted lists of the identifiers in S: an element that none of S comes
\* before, followed by a sorted list of the others
RECURSIVE SortedFrom(_, _, _)
SortedFrom(S, recs, ftName) ==
    IF S = {} THEN {<<>>}
    ELSE UNION {{<<d>> \o rest : rest \in SortedFrom(S \ {d}, recs, ftName)} :
                   d \in {e \in S : \A f \in S : ~SortLess(f, e, recs, ftName)}}

\* faulty variant: no sort, the records in any order
SortedOrders_Unsorted(S, recs, ftName) == Perms(S)

\* faulty variant: the load-balancing order for every token
SortedOrders_FairOnly(S, recs, ftName) ==
    {s \in Perms(S) :
        \A i, j \in 1..Len(s) : i < j => ~FairLess(recs[s[j]], recs[s[i]])}

\* the orders a sort of the identifiers in S can produce for ftName, recs
\* being the records: by identifier for TRI, else by (assignment_count,
\* last_assignment); records that compare equal come out in any order
SortedOrders(S, recs, ftName) == SortedFrom(S, recs, ftName)

\* faulty variant: the query without its LIMIT
Limit_None(sorted, count) == sorted

\* the first count elements of a sorted list: ORDER BY ... LIMIT count
Limit(sorted, count) ==
    SubSeq(sorted, 1, IF Len(sorted) < count THEN Len(sorted) ELSE count)

-----------------------------------------------------------------------------
(* State after construction *)

\* return values of GetAvailableQuorums: (nil, err) and (result, nil), the
\* result being the identifiers of the returned addresses, in order
ErrResult == [ok |-> FALSE, quorums |-> <<>>]
OkResult(dids) == [ok |-> TRUE, quorums |-> dids]

\* the lists of distinct identifiers of length n
Orders(n) == {s \in [1..n -> DIDs] : \A i, j \in 1..n : i # j => s[i] # s[j]}

\* the lists of distinct identifiers
Lists == UNION {Orders(n) : n \in 0..Cardinality(DIDs)}

Results == {ErrResult} \cup {OkResult(s) : s \in Lists}

InList(d, list) == \E i \in 1..Len(list) : list[i] = d

IdleLocal == [count |-> 0, quorums |-> <<>>, i |-> 1]

EmptyMap == [d \in {} |-> 0]

\* ms.peerIndex after the records recs were registered one after the other
\* in the order of their identifiers
IndexOf(recs) ==
    [p \in {recs[d].PeerID : d \in DOMAIN recs} |->
        CHOOSE d \in DOMAIN recs :
            /\ recs[d].PeerID = p
            /\ \A e \in DOMAIN recs : recs[e].PeerID = p => ~StrLess(d, e)]

Init ==
    /\ backend \in {"memory", "db"}
    /\ now = 0
    /\ quorums = EmptyMap
    /\ mu = NoProc
    /\ peerIndex = IndexOf(quorums)
    /\ table = EmptyMap
    /\ history = <<>>
    /\ balanceHistory = <<>>
    /\ quorumRows = {}
    /\ pc = [g \in Procs |-> "idle"]
    /\ local = [g \in Procs |-> IdleLocal]
    /\ resp = "none"
    /\ assigned = [d \in DIDs |-> 0]

memVars == <<quorums, mu, peerIndex>>
dbVars == <<table, history, balanceHistory, quorumRows>>
procVars == <<pc, local>>

\* the clock moves to its next reading
Tick ==
    /\ \E t \in Clock : t > now
    /\ now' = CHOOSE t \in Clock : t > now /\ \A u \in Clock : u > now => t <= u
    /\ resp' = "none"
    /\ UNCHANGED <<backend, memVars, dbVars, procVars, assigned>>

-----------------------------------------------------------------------------
(* MemoryStore: the method bodies, which run with ms.mu held *)

\* a registration request, and the request of a node of Spec
Request(did, peerID, balance, didType, supportedTokens) ==
    [DID |-> did, PeerID |-> peerID, Balance |-> balance, DIDType |-> didType,
     SupportedTokens |-> supportedTokens]
NodeRequest(did, balance, supportedTokens) ==
    Request(did, PeerOf(did), balance, NodeType, supportedTokens)

\* ms.peerIndex[peerID] = did
IndexWith(peerID, did) ==
    [p \in DOMAIN peerIndex \cup {peerID} |-> IF p = peerID THEN did ELSE peerIndex[p]]

\* delete(ms.peerIndex, peerID), for every peerID of the set
IndexWithout(peerIDs) == [p \in DOMAIN peerIndex \ peerIDs |-> peerIndex[p]]

NewQuorum(req) ==
    [PeerID |-> req.PeerID,
     Balance |-> req.Balance,
     DIDType |-> req.DIDType,
     Available |-> TRUE,
     LastPing |-> now,
     AssignmentCount |-> 0,
     LastAssignment |-> ZeroTime,
     RegistrationTime |-> now,
     SupportedTokens |-> req.SupportedTokens]

\* faulty variant: the record of an existing identifier replaced by a new one
MS_RegisterBody_Replacing(req) ==
    /\ peerIndex' = IndexWith(req.PeerID, req.DID)
    /\ quorums' = [d \in DOMAIN quorums \cup {req.DID} |->
                      IF d = req.DID THEN NewQuorum(req) ELSE quorums[d]]
    /\ assigned' = [assigned EXCEPT ![req.DID] = 0]

MS_RegisterBody(req) ==
    /\ peerIndex' = IndexWith(req.PeerID, req.DID)
    /\ IF req.DID \in DOMAIN quorums
       THEN /\ quorums' = [quorums EXCEPT ![req.DID].PeerID = req.PeerID,
                                          ![req.DID].Balance = req.Balance,
                                          ![req.DID].DIDType = req.DIDType,
                                          ![req.DID].LastPing = now,
                                          ![req.DID].Available = TRUE,
                                          ![req.DID].SupportedTokens = req.SupportedTokens]
            /\ UNCHANGED assigned
       ELSE /\ quorums' = [d \in DOMAIN quorums \cup {req.DID} |->
                              IF d = req.DID THEN NewQuorum(req) ELSE quorums[d]]
            /\ assigned' = [assigned EXCEPT ![req.DID] = 0]

\* ConfirmAvailability: errors.New("quorum not found") for an unknown identifier
MS_ConfirmBody(did) ==
    /\ UNCHANGED peerIndex
    /\ IF did \in DOMAIN quorums
       THEN /\ quorums' = [quorums EXCEPT ![did].Available = TRUE, ![did].LastPing = now]
            /\ resp' = "none"
            /\ UNCHANGED assigned
       ELSE /\ resp' = "not found"
            /\ UNCHANGED <<quorums, assigned>>

\* UpdateHeartbeat: errors.New("quorum not found") for an unknown identifier
MS_HeartbeatBody(did) ==
    /\ UNCHANGED peerIndex
    /\ IF did \in DOMAIN quorums
       THEN /\ quorums' = [quorums EXCEPT ![did].LastPing = now]
            /\ resp' = "none"
            /\ UNCHANGED assigned
       ELSE /\ resp' = "not found"
            /\ UNCHANGED <<quorums, assigned>>

\* faulty variant: the record kept and flagged instead of deleted
MS_UnregisterBody_Flagging(did) ==
    /\ UNCHANGED peerIndex
    /\ IF did \in DOMAIN quorums
       THEN /\ quorums' = [quorums EXCEPT ![did].Available = FALSE]
            /\ resp' = "none"
            /\ assigned' = [assigned EXCEPT ![did] = 0]
       ELSE /\ resp' = "not found"
            /\ UNCHANGED <<quorums, assigned>>

\* UnregisterQuorum: errors.New("quorum not found") for an unknown identifier
MS_UnregisterBody(did) ==
    /\ peerIndex' = IF did \in DOMAIN quorums
                    THEN IndexWithout({quorums[did].PeerID})
                    ELSE peerIndex
    /\ IF did \in DOMAIN quorums
       THEN /\ quorums' = [d \in DOMAIN quorums \ {did} |-> quorums[d]]
            /\ resp' = "none"
            /\ assigned' = [assigned EXCEPT ![did] = 0]
       ELSE /\ resp' = "not found"
            /\ UNCHANGED <<quorums, assigned>>

\* faulty variant: a ping exactly ten minutes old is stale
MS_Stale_Inclusive == {d \in DOMAIN quorums : now - quorums[d].LastPing >= StaleThreshold}

\* the records the sweeper of the memory store deletes
MS_Stale == {d \in DOMAIN quorums : now - quorums[d].LastPing > StaleThreshold}

MS_CleanupBody ==
    /\ peerIndex' = IndexWithout({quorums[d].PeerID : d \in MS_Stale})
    /\ quorums' = [d \in DOMAIN quorums \ MS_Stale |-> quorums[d]]
    /\ assigned' = [d \in DIDs |-> IF d \in MS_Stale THEN 0 ELSE assigned[d]]

\* faulty variant: the last-character filter applied to TRI requests too
MS_Available_LastCharForTRI(count, lastCharTID, transactionAmount, ftName) ==
    {d \in DOMAIN quorums :
        /\ quorums[d].Available
        /\ PingedRecently(quorums[d].LastPing, now)
        /\ SufficientBalance(quorums[d].Balance, transactionAmount, count)
        /\ ~(ftName # <<>> /\ ~supportsToken(quorums[d].SupportedTokens, ftName))
        /\ IF lastCharTID # <<>>
           THEN Len(d) > 0 /\ <<d[Len(d)]>> = lastCharTID
           ELSE TRUE}

\* the filter loop of GetAvailableQuorums: availableQuorums, as identifiers
MS_Available(count, lastCharTID, transactionAmount, ftName) ==
    {d \in DOMAIN quorums :
        /\ quorums[d].Available
        /\ PingedRecently(quorums[d].LastPing, now)
        /\ SufficientBalance(quorums[d].Balance, transactionAmount, count)
        /\ ~(ftName # <<>> /\ ~supportsToken(quorums[d].SupportedTokens, ftName))
        /\ IF lastCharTID # <<>> /\ ftName # TRI
           THEN Len(d) > 0 /\ <<d[Len(d)]>> = lastCharTID
           ELSE TRUE}

\* faulty variant: no length check, the records found are returned
MS_Outcomes_NoLengthCheck(cnt, lastCharTID, transactionAmount, ftName) ==
    LET count == EffectiveCount(cnt)
        availableQuorums == MS_Available(count, lastCharTID, transactionAmount, ftName)
    IN {OkResult(Limit(sorted, count)) :
           sorted \in SortedOrders(availableQuorums, quorums, ftName)}

\* the length check and the sort: the values GetAvailableQuorums can return
\* in the current state
MS_Outcomes(cnt, lastCharTID, transactionAmount, ftName) ==
    LET count == EffectiveCount(cnt)
        availableQuorums == MS_Available(count, lastCharTID, transactionAmount, ftName)
    IN IF Cardinality(availableQuorums) < count
       THEN {ErrResult}
       ELSE {OkResult(SubSeq(sorted, 1, count)) :
                sorted \in SortedOrders(availableQuorums, quorums, ftName)}

\* faulty variant: the loop run over every record of the map
MS_Assign_All(qs, chosen) ==
    [d \in DOMAIN qs |->
        [qs[d] EXCEPT !.AssignmentCount = @ + 1, !.LastAssignment = now]]

\* the assignment loop: every chosen record that is still in the map gets
\* AssignmentCount++ and LastAssignment = time.Now()
MS_Assign(qs, chosen) ==
    [d \in DOMAIN qs |->
        IF InList(d, chosen)
        THEN [qs[d] EXCEPT !.AssignmentCount = @ + 1, !.LastAssignment = now]
        ELSE qs[d]]

Counted(chosen) ==
    [d \in DIDs |-> IF InList(d, chosen) THEN assigned[d] + 1 ELSE assigned[d]]

\* the values GetAvailableQuorums can return to the requests for cnt records
MS_OutcomesFor(cnt) ==
    UNION {MS_Outcomes(cnt, lc, amt, ft) :
              lc \in LastChars, amt \in Amounts, ft \in FtNames}

\* the whole body of GetAvailableQuorums for a request for cnt records, the
\* other inputs of the request being any the clients send
MS_SelectBody(cnt) ==
    /\ UNCHANGED peerIndex
    /\ \E result \in MS_OutcomesFor(cnt) :
           IF result.ok
           THEN /\ \A i \in 1..Len(result.quorums) :
                      quorums[result.quorums[i]].AssignmentCount < MaxAssign
                /\ quorums' = MS_Assign(quorums, result.quorums)
                /\ resp' = "ok"
                /\ assigned' = Counted(result.quorums)
           ELSE /\ resp' = "error"
                /\ UNCHANGED <<quorums, assigned>>

-----------------------------------------------------------------------------
(* MemoryStore, requests served one at a time: a method call is          *)
(* ms.mu.Lock(), the body, and the deferred ms.mu.Unlock(), in one step  *)

\* faulty variant: Lock() that never waits
\* GetQuorumByDID: the record, or errors.New("quorum not found")
MS_GetQuorumByDID(did) ==
    IF did \in DOMAIN quorums
    THEN [err |-> "none", quorum |-> quorums[did]]
    ELSE [err |-> "not found"]

MuFree_Always == TRUE

\* ms.mu.Lock() returns when no goroutine holds the mutex
MuFree == mu = NoProc

MS_Call == backend = "memory" /\ MuFree

MS_RegisterQuorum(req) ==
    /\ MS_Call
    /\ MS_RegisterBody(req)
    /\ resp' = "none"
    /\ UNCHANGED <<backend, now, mu, dbVars, procVars>>

MS_ConfirmAvailability(did) ==
    /\ MS_Call
    /\ MS_ConfirmBody(did)
    /\ UNCHANGED <<backend, now, mu, dbVars, procVars>>

MS_UpdateHeartbeat(did) ==
    /\ MS_Call
    /\ MS_HeartbeatBody(did)
    /\ UNCHANGED <<backend, now, mu, dbVars, procVars>>

MS_UnregisterQuorum(did) ==
    /\ MS_Call
    /\ MS_UnregisterBody(did)
    /\ UNCHANGED <<backend, now, mu, dbVars, procVars>>

MS_CleanupStaleQuorums ==
    /\ MS_Call
    /\ MS_CleanupBody
    /\ resp' = "none"
    /\ UNCHANGED <<backend, now, mu, dbVars, procVars>>

MS_GetAvailableQuorums(cnt) ==
    /\ MS_Call
    /\ MS_SelectBody(cnt)
    /\ UNCHANGED <<backend, now, mu, dbVars, procVars>>

MemoryNext ==
    \/ \E did \in DIDs, balance \in Balances, tokens \in TokenLists :
          MS_RegisterQuorum(NodeRequest(did, balance, tokens))
    \/ \E did \in DIDs : MS_ConfirmAvailability(did)
    \/ \E did \in DIDs : MS_UpdateHeartbeat(did)
    \/ \E did \in DIDs : MS_UnregisterQuorum(did)
    \/ MS_CleanupStaleQuorums
    \/ \E cnt \in Counts : MS_GetAvailableQuorums(cnt)

-----------------------------------------------------------------------------
(* DBStore: a call of ds.db is a statement, run by the database as one step. *)
(* The methods other than GetAvailableQuorums are taken as one step each.    *)

\* The primary key of an inserted row.  The database never hands out a key
\* twice; a key that no row and no goroutine holds any more cannot be told
\* from a new one, so the least such key stands for the next key.
UsedIDs ==
    {table[d].ID : d \in DOMAIN table}
        \cup UNION {{local[g].quorums[i].ID : i \in 1..Len(local[g].quorums)} : g \in Procs}

NextID == CHOOSE n \in 1..(Cardinality(UsedIDs) + 1) :
              /\ n \notin UsedIDs
              /\ \A m \in 1..(n - 1) : m \in UsedIDs

\* the row RegisterQuorum builds, as inserted under the primary key id
QuorumDB(req, id) ==
    [ID |-> id,
     PeerID |-> req.PeerID,
     Balance |-> req.Balance,
     DIDType |-> req.DIDType,
     Available |-> TRUE,
     LastPing |-> now,
     AssignmentCount |-> 0,
     LastAssignment |-> ZeroTime,
     RegistrationTime |-> now,
     SupportedTokens |-> Marshal(req.SupportedTokens)]

NewRow(req) == QuorumDB(req, NextID)

\* faulty variant: the update of an existing row without the available column
DS_RegisterQuorum_KeepingFlag(req) ==
    /\ backend = "db"
    /\ IF req.DID \in DOMAIN table
       THEN /\ table' = [table EXCEPT ![req.DID].PeerID = req.PeerID,
                                      ![req.DID].Balance = req.Balance,
                                      ![req.DID].DIDType = req.DIDType,
                                      ![req.DID].LastPing = now,
                                      ![req.DID].SupportedTokens =
                                          Marshal(req.SupportedTokens)]
            /\ UNCHANGED assigned
       ELSE /\ table' = [d \in DOMAIN table \cup {req.DID} |->
                            IF d = req.DID THEN NewRow(req) ELSE table[d]]
            /\ assigned' = [assigned EXCEPT ![req.DID] = 0]
    /\ resp' = "none"
    /\ UNCHANGED <<backend, now, memVars, quorumRows, history, balanceHistory,
                   procVars>>

\* RegisterQuorum: First(did), then Updates(...) on the row found or Create
DS_RegisterRows(req) ==
    IF req.DID \in DOMAIN table
    THEN /\ table' = [table EXCEPT ![req.DID].PeerID = req.PeerID,
                                   ![req.DID].Balance = req.Balance,
                                   ![req.DID].DIDType = req.DIDType,
                                   ![req.DID].Available = TRUE,
                                   ![req.DID].LastPing = now,
                                   ![req.DID].SupportedTokens =
                                       Marshal(req.SupportedTokens)]
         /\ UNCHANGED assigned
    ELSE /\ table' = [d \in DOMAIN table \cup {req.DID} |->
                         IF d = req.DID THEN NewRow(req) ELSE table[d]]
         /\ assigned' = [assigned EXCEPT ![req.DID] = 0]

\* the quorums table under RegisterQuorum (DSA_RegisterQuorum follows the
\* balance_history table too)
DS_RegisterQuorum(req) ==
    /\ backend = "db"
    /\ DS_RegisterRows(req)
    /\ resp' = "none"
    /\ UNCHANGED <<backend, now, memVars, quorumRows, history, balanceHistory,
                   procVars>>

\* faulty variant: the balance update counted as a liveness signal
DS_UpdateQuorumBalance_Refreshing(did, newBalance) ==
    /\ backend = "db"
    /\ IF did \in DOMAIN table
       THEN /\ table' = [table EXCEPT ![did].Balance = newBalance,
                                      ![did].LastPing = now]
            /\ resp' = "none"
       ELSE /\ resp' = "not found"
            /\ UNCHANGED table
    /\ UNCHANGED <<backend, now, memVars, quorumRows, history, balanceHistory,
                   procVars, assigned>>

\* faulty variant: the row written back whole, available at its zero value
DS_UpdateQuorumBalance_Demoting(did, newBalance) ==
    /\ backend = "db"
    /\ did \in DOMAIN table
    /\ table' = [table EXCEPT ![did].Balance = newBalance, ![did].Available = FALSE]
    /\ resp' = "none"
    /\ UNCHANGED <<backend, now, memVars, quorumRows, history, balanceHistory,
                   procVars, assigned>>

\* UpdateQuorumBalance: First(did), "quorum not found" if there is no row,
\* else UPDATE quorums SET balance = ? on the row found
DS_UpdateBalanceRows(did, newBalance) ==
    IF did \in DOMAIN table
    THEN /\ table' = [table EXCEPT ![did].Balance = newBalance]
         /\ resp' = "none"
    ELSE /\ resp' = "not found"
         /\ UNCHANGED table

\* the quorums table under UpdateQuorumBalance (DSA_UpdateQuorumBalance
\* follows the balance_history table too)
DS_UpdateQuorumBalance(did, newBalance) ==
    /\ backend = "db"
    /\ DS_UpdateBalanceRows(did, newBalance)
    /\ UNCHANGED <<backend, now, memVars, quorumRows, history, balanceHistory,
                   procVars, assigned>>

\* faulty variant: the update without the lookup before it
DS_ConfirmAvailability_NoLookup(did) ==
    /\ backend = "db"
    /\ table' = [d \in DOMAIN table |->
                    IF d = did
                    THEN [table[d] EXCEPT !.Available = TRUE, !.LastPing = now]
                    ELSE table[d]]
    /\ resp' = "none"
    /\ UNCHANGED <<backend, now, memVars, quorumRows, history, balanceHistory,
                   procVars, assigned>>

\* ConfirmAvailability: First(did), "quorum not found" if there is no row,
\* else UPDATE quorums SET available = true, last_ping = now WHERE did = ?
DS_ConfirmRows(did) ==
    IF did \in DOMAIN table
    THEN /\ table' = [table EXCEPT ![did].Available = TRUE, ![did].LastPing = now]
         /\ resp' = "none"
    ELSE /\ resp' = "not found"
         /\ UNCHANGED table

DS_ConfirmAvailability(did) ==
    /\ backend = "db"
    /\ DS_ConfirmRows(did)
    /\ UNCHANGED <<backend, now, memVars, quorumRows, history, balanceHistory,
                   procVars, assigned>>

\* faulty variant: the heartbeat also sets available
DS_UpdateHeartbeat_Confirming(did) ==
    /\ backend = "db"
    /\ table' = [d \in DOMAIN table |->
                    IF d = did
                    THEN [table[d] EXCEPT !.LastPing = now, !.Available = TRUE]
                    ELSE table[d]]
    /\ resp' = "none"
    /\ UNCHANGED <<backend, now, memVars, quorumRows, history, balanceHistory,
                   procVars, assigned>>

\* UPDATE quorums SET last_ping = now WHERE did = ?; the statement matching no
\* row is no error, and the method returns nil
DS_HeartbeatRows(did) ==
    /\ table' = [d \in DOMAIN table |->
                    IF d = did THEN [table[d] EXCEPT !.LastPing = now] ELSE table[d]]
    /\ resp' = "none"

DS_UpdateHeartbeat(did) ==
    /\ backend = "db"
    /\ DS_HeartbeatRows(did)
    /\ UNCHANGED <<backend, now, memVars, quorumRows, history, balanceHistory,
                   procVars, assigned>>

\* DELETE FROM quorums WHERE did = ?; the statement matching no row is no
\* error, and the method returns nil
DS_UnregisterRows(did) ==
    /\ table' = [d \in DOMAIN table \ {did} |-> table[d]]
    /\ assigned' = [assigned EXCEPT ![did] = 0]
    /\ resp' = "none"

DS_UnregisterQuorum(did) ==
    /\ backend = "db"
    /\ DS_UnregisterRows(did)
    /\ UNCHANGED <<backend, now, memVars, quorumRows, history, balanceHistory,
                   procVars>>

\* GetQuorumByDID: First(did), and "quorum not found" if it returns an error
DS_GetQuorumByDID(did) ==
    IF did \in DOMAIN table
    THEN [err |-> "none", quorum |-> table[did]]
    ELSE [err |-> "not found"]

\* UPDATE quorums SET available = false WHERE last_ping < now - 10 minutes
DS_CleanupRows ==
    /\ table' = [d \in DOMAIN table |->
                    IF table[d].LastPing < now - StaleThreshold
                    THEN [table[d] EXCEPT !.Available = FALSE]
                    ELSE table[d]]
    /\ resp' = "none"

DS_CleanupStaleQuorums ==
    /\ backend = "db"
    /\ DS_CleanupRows
    /\ UNCHANGED <<backend, now, memVars, quorumRows, history, balanceHistory,
                   procVars, assigned>>

\* the WHERE clause of the selection query
DS_Where(count, lastCharTID, transactionAmount, ftName) ==
    {d \in DOMAIN table :
        /\ table[d].Available = TRUE
        /\ PingedRecently(table[d].LastPing, now)
        /\ SufficientBalance(table[d].Balance, transactionAmount, count)
        /\ TokenWhere(table[d].SupportedTokens, ftName)
        /\ IF lastCharTID # <<>> /\ ftName # TRI
           THEN LikeSuffix(d, lastCharTID)
           ELSE TRUE}

\* the identifier lists the selection query can return in the current state
DS_QueryResults(count, lastCharTID, transactionAmount, ftName) ==
    {Limit(sorted, count) :
        sorted \in SortedOrders(DS_Where(count, lastCharTID, transactionAmount, ftName),
                                table, ftName)}

\* the part of a fetched row the selection uses after the query
Fetched(d) == [ID |-> table[d].ID, DID |-> d, AssignmentCount |-> table[d].AssignmentCount]

\* the lists the selection query can return to the requests for cnt records
DS_QueryResultsFor(cnt) ==
    UNION {DS_QueryResults(EffectiveCount(cnt), lc, amt, ft) :
              lc \in LastChars, amt \in Amounts, ft \in FtNames}

\* GetAvailableQuorums for a request for cnt records, up to the length check:
\* the query returning rows, and the error return; the other inputs of the
\* request are any the clients send
DS_Find(g, cnt) ==
    /\ backend = "db"
    /\ pc[g] = "idle"
    /\ \E rows \in DS_QueryResultsFor(cnt) :
          IF Len(rows) < EffectiveCount(cnt)
          THEN /\ resp' = "error"
               /\ UNCHANGED procVars
          ELSE /\ Len(history) < MaxHistory
               /\ \A i \in 1..Len(rows) : table[rows[i]].AssignmentCount < MaxAssign
               /\ local' = [local EXCEPT ![g] =
                               [count |-> EffectiveCount(cnt),
                                quorums |-> [i \in 1..Len(rows) |-> Fetched(rows[i])],
                                i |-> 1]]
               /\ pc' = [pc EXCEPT ![g] = "update"]
               /\ resp' = "none"
    /\ UNCHANGED <<backend, now, memVars, dbVars, assigned>>

\* variant: the increment done by the database (assignment_count + 1 in SQL)
NewAssignmentCount_InPlace(q, current) == current + 1

\* the value the update statement writes to assignment_count for the fetched
\* row q (current being the value in the table): q.AssignmentCount + 1
NewAssignmentCount(q, current) == q.AssignmentCount + 1

\* one turn of the loop: UPDATE quorums SET assignment_count = ...,
\* last_assignment = now WHERE id = q.ID
DS_UpdateAssignment(g) ==
    /\ backend = "db"
    /\ pc[g] = "update"
    /\ local[g].i <= Len(local[g].quorums)
    /\ LET q == local[g].quorums[local[g].i]
       IN table' = [d \in DOMAIN table |->
                       IF table[d].ID = q.ID
                       THEN [table[d] EXCEPT
                                !.AssignmentCount = NewAssignmentCount(q, @),
                                !.LastAssignment = now]
                       ELSE table[d]]
    /\ local' = [local EXCEPT ![g].i = @ + 1]
    /\ UNCHANGED <<backend, now, memVars, quorumRows, history, balanceHistory,
                   pc, resp, assigned>>

\* the fetched rows of g that are still in the table
StillThere(g) ==
    {d \in DOMAIN table :
        \E i \in 1..Len(local[g].quorums) :
            local[g].quorums[i].DID = d /\ local[g].quorums[i].ID = table[d].ID}

\* after the loop: INSERT INTO transaction_history, and the return of result
DS_RecordHistory(g, result) ==
    /\ backend = "db"
    /\ pc[g] = "update"
    /\ local[g].i > Len(local[g].quorums)
    /\ result = OkResult([i \in 1..Len(local[g].quorums) |-> local[g].quorums[i].DID])
    /\ history' = Append(history, "txn")
    /\ resp' = "ok"
    /\ assigned' = [d \in DIDs |-> IF d \in StillThere(g) THEN assigned[d] + 1 ELSE assigned[d]]
    /\ pc' = [pc EXCEPT ![g] = "idle"]
    /\ local' = [local EXCEPT ![g] = IdleLocal]
    /\ UNCHANGED <<backend, now, memVars, quorumRows, table, balanceHistory>>

\* the statements of a selection under way
DBSteps ==
    \/ \E g \in Procs : DS_UpdateAssignment(g)
    \/ \E g \in Procs, result \in Results : DS_RecordHistory(g, result)

-----------------------------------------------------------------------------
(* Requests served one at a time, on either store *)

\* no request is being served
Quiet == \A g \in Procs : pc[g] = "idle"

\* the clock moves between two requests
SerialTick == Quiet /\ Tick

\* a request, or a run of the sweeper, starts when the one before has ended
SerialDBNext ==
    \/ \E did \in DIDs, balance \in Balances, tokens \in TokenLists :
          Quiet /\ DS_RegisterQuorum(NodeRequest(did, balance, tokens))
    \/ \E did \in DIDs, balance \in Balances :
          Quiet /\ DS_UpdateQuorumBalance(did, balance)
    \/ \E did \in DIDs : Quiet /\ DS_ConfirmAvailability(did)
    \/ \E did \in DIDs : Quiet /\ DS_UpdateHeartbeat(did)
    \/ \E did \in DIDs : Quiet /\ DS_UnregisterQuorum(did)
    \/ Quiet /\ DS_CleanupStaleQuorums
    \/ \E cnt \in Counts : Quiet /\ DS_Find("g1", cnt)
    \/ DBSteps

Next == SerialTick \/ MemoryNext \/ SerialDBNext

Spec == Init /\ [][Next]_vars

-----------------------------------------------------------------------------
(* Requests served concurrently, one goroutine per request.  On the memory *)
(* store a method is ms.mu.Lock(), steps of the body, ms.mu.Unlock(); on   *)
(* the database store the statements of two selections interleave with     *)
(* each other and with the other methods.                                  *)

\* the requests of the concurrent runs: nodes register with one token list
\* and, on the memory store, one balance; on the database store, where the
\* statements of the selections interleave, one node registers and the
\* selections ask for one record
ConcBalance == 10
ConcTokens == <<RBT, TRI>>
ConcCounts == {1, 2}
DBConcDIDs == {<<"a", "x">>}
DBConcCounts == {1}

\* ms.mu.Lock()
MSC_Lock(g) ==
    /\ backend = "memory"
    /\ pc[g] = "idle"
    /\ MuFree
    /\ mu' = g
    /\ pc' = [pc EXCEPT ![g] = "locked"]
    /\ resp' = "none"
    /\ UNCHANGED <<backend, now, quorums, peerIndex, dbVars, local, assigned>>

\* the deferred ms.mu.Unlock()
MSC_Unlock(g) ==
    /\ mu' = NoProc
    /\ pc' = [pc EXCEPT ![g] = "idle"]

MSC_Holds(g) == backend = "memory" /\ pc[g] = "locked"

MSC_RegisterQuorum(g, req) ==
    /\ MSC_Holds(g)
    /\ MS_RegisterBody(req)
    /\ MSC_Unlock(g)
    /\ resp' = "none"
    /\ UNCHANGED <<backend, now, dbVars, local>>

MSC_ConfirmAvailability(g, did) ==
    /\ MSC_Holds(g)
    /\ MS_ConfirmBody(did)
    /\ MSC_Unlock(g)
    /\ UNCHANGED <<backend, now, dbVars, local>>

MSC_UpdateHeartbeat(g, did) ==
    /\ MSC_Holds(g)
    /\ MS_HeartbeatBody(did)
    /\ MSC_Unlock(g)
    /\ UNCHANGED <<backend, now, dbVars, local>>

MSC_UnregisterQuorum(g, did) ==
    /\ MSC_Holds(g)
    /\ MS_UnregisterBody(did)
    /\ MSC_Unlock(g)
    /\ UNCHANGED <<backend, now, dbVars, local>>

MSC_CleanupStaleQuorums(g) ==
    /\ MSC_Holds(g)
    /\ MS_CleanupBody
    /\ MSC_Unlock(g)
    /\ resp' = "none"
    /\ UNCHANGED <<backend, now, dbVars, local>>

\* what the selecting goroutine has seen of a record it chose
Seen(d) == [ID |-> 0, DID |-> d, AssignmentCount |-> quorums[d].AssignmentCount]

\* GetAvailableQuorums up to the end of its sort: the filter loop, the length
\* check with its error return, the sort
MSC_Filter(g, cnt) ==
    /\ MSC_Holds(g)
    /\ \E result \in MS_OutcomesFor(cnt) :
          IF result.ok
          THEN /\ \A i \in 1..Len(result.quorums) :
                     quorums[result.quorums[i]].AssignmentCount < MaxAssign
               /\ local' = [local EXCEPT ![g] =
                               [count |-> EffectiveCount(cnt),
                                quorums |-> [i \in 1..Len(result.quorums) |->
                                                Seen(result.quorums[i])],
                                i |-> 1]]
               /\ pc' = [pc EXCEPT ![g] = "assign"]
               /\ resp' = "none"
               /\ UNCHANGED mu
          ELSE /\ resp' = "error"
               /\ MSC_Unlock(g)
               /\ UNCHANGED local
    /\ UNCHANGED <<backend, now, quorums, peerIndex, dbVars, assigned>>

\* the assignment loop over the first count sorted records, and the return
MSC_Assign(g, result) ==
    /\ UNCHANGED peerIndex
    /\ backend = "memory"
    /\ pc[g] = "assign"
    /\ result = OkResult([i \in 1..Len(local[g].quorums) |-> local[g].quorums[i].DID])
    /\ quorums' = MS_Assign(quorums, result.quorums)
    /\ assigned' = Counted(result.quorums)
    /\ resp' = "ok"
    /\ MSC_Unlock(g)
    /\ local' = [local EXCEPT ![g] = IdleLocal]
    /\ UNCHANGED <<backend, now, dbVars>>

MemoryConcNext ==
    \E g \in Procs :
        \/ MSC_Lock(g)
        \/ \E did \in DIDs : MSC_RegisterQuorum(g, NodeRequest(did, ConcBalance, ConcTokens))
        \/ \E did \in DIDs : MSC_ConfirmAvailability(g, did)
        \/ \E did \in DIDs : MSC_UpdateHeartbeat(g, did)
        \/ \E did \in DIDs : MSC_UnregisterQuorum(g, did)
        \/ MSC_CleanupStaleQuorums(g)
        \/ \E cnt \in ConcCounts : MSC_Filter(g, cnt)
        \/ \E result \in Results : MSC_Assign(g, result)

DBConcNext ==
    \/ \E did \in DBConcDIDs, balance \in Balances :
          DS_RegisterQuorum(NodeRequest(did, balance, ConcTokens))
    \/ \E did \in DBConcDIDs, balance \in Balances : DS_UpdateQuorumBalance(did, balance)
    \/ \E did \in DBConcDIDs : DS_ConfirmAvailability(did)
    \/ \E did \in DBConcDIDs : DS_UpdateHeartbeat(did)
    \/ \E did \in DBConcDIDs : DS_UnregisterQuorum(did)
    \/ DS_CleanupStaleQuorums
    \/ \E g \in Procs, cnt \in DBConcCounts : DS_Find(g, cnt)
    \/ DBSteps

NextConc == Tick \/ MemoryConcNext \/ DBConcNext

SpecConc == Init /\ [][NextConc]_vars

-----------------------------------------------------------------------------
(* Racing registrations: two request goroutines register and unregister    *)
(* the nodes.  On the memory store RegisterQuorum runs with ms.mu held; on *)
(* the database store its lookup and its write are two statements, and the *)
(* statements of the two goroutines interleave.                            *)

\* the primary keys in use, and the key of the next insert
RowIDs == {r.ID : r \in quorumRows}
NextRowID == CHOOSE n \in 1..(Cardinality(RowIDs) + 1) :
                 /\ n \notin RowIDs
                 /\ \A m \in 1..(n - 1) : m \in RowIDs

\* the rows WHERE did = ?
RowsOf(did) == {r \in quorumRows : r.DID = did}

\* faulty variant: a table without the unique index
UniqueIndex_Absent(did) == TRUE

\* gorm:"column:did;uniqueIndex": an insert is refused if a row has the did
UniqueIndex(did) == RowsOf(did) = {}

\* result := ds.db.Where("did = ?", req.DID).First(&existingQuorum): the row
\* with the least primary key, if there is one
DSR_First(g, req) ==
    /\ backend = "db"
    /\ pc[g] = "idle"
    /\ local' = [local EXCEPT ![g] =
                    [req |-> req,
                     existingQuorum |->
                         {r \in RowsOf(req.DID) : \A o \in RowsOf(req.DID) : r.ID <= o.ID}]]
    /\ pc' = [pc EXCEPT ![g] = "register"]
    /\ resp' = "none"
    /\ UNCHANGED <<backend, now, memVars, dbVars, assigned>>

\* then Model(&existingQuorum).Updates(updates), an UPDATE ... WHERE id = ?
\* that is no error if the row is gone, or Create(&quorum); the nodes send the
\* balance they registered with, so that no row goes to balance_history
DSR_Write(g) ==
    /\ backend = "db"
    /\ pc[g] = "register"
    /\ LET req == local[g].req
           existingQuorum == local[g].existingQuorum
       IN IF existingQuorum # {}
          THEN /\ quorumRows' =
                      {IF \E e \in existingQuorum : r.ID = e.ID
                       THEN [r EXCEPT !.PeerID = req.PeerID,
                                      !.Balance = req.Balance,
                                      !.DIDType = req.DIDType,
                                      !.Available = TRUE,
                                      !.LastPing = now,
                                      !.SupportedTokens = Marshal(req.SupportedTokens)]
                       ELSE r : r \in quorumRows}
               /\ resp' = "none"
          ELSE IF UniqueIndex(req.DID)
               THEN /\ quorumRows' =
                           quorumRows \cup
                               {QuorumDB(req, NextRowID) @@ [DID |-> req.DID]}
                    /\ resp' = "none"
               ELSE /\ resp' = "storage error"
                    /\ UNCHANGED quorumRows
    /\ pc' = [pc EXCEPT ![g] = "idle"]
    /\ local' = [local EXCEPT ![g] = IdleLocal]
    /\ UNCHANGED <<backend, now, memVars, table, history, balanceHistory, assigned>>

\* DELETE FROM quorums WHERE did = ?
DSR_UnregisterQuorum(did) ==
    /\ backend = "db"
    /\ quorumRows' = quorumRows \ RowsOf(did)
    /\ resp' = "none"
    /\ UNCHANGED <<backend, now, memVars, table, history, balanceHistory, procVars,
                   assigned>>

NextRace ==
    \/ Tick
    \/ \E g \in Procs : MSC_Lock(g)
    \/ \E g \in Procs, did \in DIDs :
          MSC_RegisterQuorum(g, NodeRequest(did, ConcBalance, ConcTokens))
    \/ \E g \in Procs, did \in DIDs : MSC_UnregisterQuorum(g, did)
    \/ \E g \in Procs, did \in DIDs :
          DSR_First(g, NodeRequest(did, ConcBalance, ConcTokens))
    \/ \E g \in Procs : DSR_Write(g)
    \/ \E did \in DIDs : DSR_UnregisterQuorum(did)

SpecRace == Init /\ [][NextRace]_vars

-----------------------------------------------------------------------------
(* Registration and balance requests as the handlers serve them, with the  *)
(* balance_history table: one request at a time at time 5, on a registry   *)
(* that holds, for each node, nothing or a record registered at time 0 and *)
(* returned by one selection since.                                        *)

\* the rows of balance_history a run may hold
MaxEvents == 1

\* what the nodes send: peer_id, balance, did_type, supported_tokens
RegProfiles ==
    {<<"p1", 10, 1, <<>>>>,
     <<"p2", 20, 2, <<RBT, TRI>>>>,
     <<"p1", -1, 1, <<>>>>,
     <<"p1", 10, 5, <<>>>>}
RegRequests ==
    {Request(d, p[1], p[2], p[3], p[4]) : d \in DIDs, p \in RegProfiles}
RegBalances == {-1, 10, 20}
RegNow == 5

RegQuorum ==
    [PeerID |-> "p1",
     Balance |-> 10,
     DIDType |-> 1,
     Available |-> TRUE,
     LastPing |-> 0,
     AssignmentCount |-> 1,
     LastAssignment |-> 0,
     RegistrationTime |-> 0,
     SupportedTokens |-> <<>>]

RegRow(d, present) ==
    [RegQuorum EXCEPT !.SupportedTokens = Marshal(<<>>)]
        @@ [ID |-> Cardinality({e \in present : StrLess(e, d)}) + 1]

InitReg ==
    /\ backend \in {"memory", "db"}
    /\ now = RegNow
    /\ \E present \in SUBSET DIDs :
          /\ quorums = IF backend = "memory"
                       THEN [d \in present |-> RegQuorum]
                       ELSE EmptyMap
          /\ table = IF backend = "db"
                     THEN [d \in present |-> RegRow(d, present)]
                     ELSE EmptyMap
          /\ assigned = [d \in DIDs |-> IF d \in present THEN 1 ELSE 0]
    /\ mu = NoProc
    /\ peerIndex = IndexOf(quorums)
    /\ history = <<>>
    /\ balanceHistory = <<>>
    /\ quorumRows = {}
    /\ pc = [g \in Procs |-> "idle"]
    /\ local = [g \in Procs |-> IdleLocal]
    /\ resp = "none"

\* a row of balance_history
BalanceHistory(did, oldBalance, newBalance, changeReason) ==
    [QuorumDID |-> did, OldBalance |-> oldBalance, NewBalance |-> newBalance,
     ChangeReason |-> changeReason]

\* if existing.Balance != req.Balance { ds.db.Create(&balanceHistory) }
DS_TrackBalance(did, oldBalance, newBalance, changeReason) ==
    balanceHistory' =
        IF oldBalance # newBalance
        THEN Append(balanceHistory,
                    BalanceHistory(did, oldBalance, newBalance, changeReason))
        ELSE balanceHistory

\* DBStore.RegisterQuorum, each write statement a transaction of its own that
\* the database may refuse (logged, written: the statement went through): the
\* result of ds.db.Create(&balanceHistory) is dropped, that of Updates or of
\* Create(&quorum) is returned
DSA_RegisterQuorum(req) ==
    /\ backend = "db"
    /\ Len(balanceHistory) < MaxEvents
    /\ \E logged, written \in BOOLEAN :
          /\ IF req.DID \in DOMAIN table /\ logged
             THEN DS_TrackBalance(req.DID, table[req.DID].Balance, req.Balance,
                                  "Registration update")
             ELSE UNCHANGED balanceHistory
          /\ IF written
             THEN /\ DS_RegisterRows(req)
                  /\ resp' = "none"
             ELSE /\ resp' = "storage error"
                  /\ UNCHANGED <<table, assigned>>
    /\ UNCHANGED <<backend, now, memVars, quorumRows, history, procVars>>

\* DBStore.UpdateQuorumBalance, in the same way: First, Create(&balanceHistory)
\* with its result dropped, Update("balance", newBalance) with its result
\* returned
DSA_UpdateQuorumBalance(did, newBalance) ==
    /\ backend = "db"
    /\ Len(balanceHistory) < MaxEvents
    /\ \E logged, written \in BOOLEAN :
          /\ IF did \in DOMAIN table /\ logged
             THEN DS_TrackBalance(did, table[did].Balance, newBalance, "Balance update")
             ELSE UNCHANGED balanceHistory
          /\ IF written \/ did \notin DOMAIN table
             THEN DS_UpdateBalanceRows(did, newBalance)
             ELSE /\ resp' = "storage error"
                  /\ UNCHANGED table
    /\ UNCHANGED <<backend, now, memVars, quorumRows, history, procVars,
                   assigned>>

\* a handler answering 400 Bad Request before it calls the store
BadRequest ==
    /\ resp' = "invalid"
    /\ UNCHANGED <<backend, now, memVars, dbVars, procVars, assigned>>

\* the check of did_type in the two RegisterQuorum handlers
ValidDIDType(didType) == ~(didType < 0 \/ didType > 4)

\* QuorumHandler.RegisterQuorum, on the memory store
QH_RegisterQuorum(req) ==
    /\ backend = "memory"
    /\ IF ValidDIDType(req.DIDType) THEN MS_RegisterQuorum(req) ELSE BadRequest

\* DBQuorumHandler.RegisterQuorum
DBH_RegisterQuorum(req) ==
    /\ backend = "db"
    /\ IF ValidDIDType(req.DIDType) THEN DSA_RegisterQuorum(req) ELSE BadRequest

\* DBQuorumHandler.UpdateQuorumBalance
DBH_UpdateQuorumBalance(did, balance) ==
    /\ backend = "db"
    /\ IF balance < 0 THEN BadRequest ELSE DSA_UpdateQuorumBalance(did, balance)

NextReg ==
    \/ \E req \in RegRequests : QH_RegisterQuorum(req)
    \/ \E req \in RegRequests : DBH_RegisterQuorum(req)
    \/ \E did \in DIDs, balance \in RegBalances : DBH_UpdateQuorumBalance(did, balance)
    \/ \E did \in DIDs : MS_UnregisterQuorum(did)
    \/ \E did \in DIDs : DS_UnregisterQuorum(did)

SpecReg == InitReg /\ [][NextReg]_vars

-----------------------------------------------------------------------------
(* Repeated selections over a pool of live nodes, and no other activity:  *)
(* four nodes registered at time 0 with one balance and one token list,   *)
(* all pinged at time 5, the time of the run; the selections have no      *)
(* last-character filter and a token filter other than TRI, so that every *)
(* node has the tokens and the liveness for every request.                *)

FairDIDs == {<<"a", "x">>, <<"a", "y">>, <<"b", "x">>, <<"b", "y">>}
FairFtNames == {<<>>, RBT}
FairNow == 5

\* what earlier selections, at time 0 or at time 5, have left in a record:
\* assignment_count and last_assignment
FairShapes == {<<0, ZeroTime>>, <<1, 0>>, <<1, FairNow>>, <<2, 0>>}

FairQuorum(shape) ==
    [PeerID |-> "p1",
     Balance |-> ConcBalance,
     DIDType |-> NodeType,
     Available |-> TRUE,
     LastPing |-> FairNow,
     AssignmentCount |-> shape[1],
     LastAssignment |-> shape[2],
     RegistrationTime |-> 0,
     SupportedTokens |-> ConcTokens]

\* the rows of the pool, with the keys of four inserts in identifier order
FairRow(d, shape) ==
    [FairQuorum(shape) EXCEPT !.SupportedTokens = Marshal(ConcTokens)]
        @@ [ID |-> Cardinality({e \in FairDIDs : StrLess(e, d)}) + 1]

InitFair ==
    /\ backend \in {"memory", "db"}
    /\ now = FairNow
    /\ \E shape \in [FairDIDs -> FairShapes] :
          /\ quorums = IF backend = "memory"
                       THEN [d \in FairDIDs |-> FairQuorum(shape[d])]
                       ELSE EmptyMap
          /\ table = IF backend = "db"
                     THEN [d \in FairDIDs |-> FairRow(d, shape[d])]
                     ELSE EmptyMap
          /\ assigned = [d \in DIDs |-> shape[d][1]]
    /\ mu = NoProc
    /\ peerIndex = IndexOf(quorums)
    /\ history = <<>>
    /\ balanceHistory = <<>>
    /\ quorumRows = {}
    /\ pc = [g \in Procs |-> "idle"]
    /\ local = [g \in Procs |-> IdleLocal]
    /\ resp = "none"

\* MemoryStore.GetAvailableQuorums(cnt, "", amt, ft)
MSF_GetAvailableQuorums(cnt, amt, ft) ==
    /\ UNCHANGED peerIndex
    /\ MS_Call
    /\ \E result \in MS_Outcomes(cnt, <<>>, amt, ft) :
          IF result.ok
          THEN /\ \A i \in 1..Len(result.quorums) :
                     quorums[result.quorums[i]].AssignmentCount < MaxAssign
               /\ quorums' = MS_Assign(quorums, result.quorums)
               /\ resp' = "ok"
               /\ assigned' = Counted(result.quorums)
          ELSE /\ resp' = "error"
               /\ UNCHANGED <<quorums, assigned>>
    /\ UNCHANGED <<backend, now, mu, dbVars, procVars>>

\* DBStore.GetAvailableQuorums(cnt, "", amt, ft), up to the length check
DSF_Find(g, cnt, amt, ft) ==
    /\ backend = "db"
    /\ Quiet
    /\ \E rows \in DS_QueryResults(EffectiveCount(cnt), <<>>, amt, ft) :
          IF Len(rows) < EffectiveCount(cnt)
          THEN /\ resp' = "error"
               /\ UNCHANGED procVars
          ELSE /\ Len(history) < MaxHistory
               /\ \A i \in 1..Len(rows) : table[rows[i]].AssignmentCount < MaxAssign
               /\ local' = [local EXCEPT ![g] =
                               [count |-> EffectiveCount(cnt),
                                quorums |-> [i \in 1..Len(rows) |-> Fetched(rows[i])],
                                i |-> 1]]
               /\ pc' = [pc EXCEPT ![g] = "update"]
               /\ resp' = "none"
    /\ UNCHANGED <<backend, now, memVars, dbVars, assigned>>

\* the list a selection under way is about to return
Chosen(g) == [i \in 1..Len(local[g].quorums) |-> local[g].quorums[i].DID]

NextFair ==
    \/ \E cnt \in Counts, amt \in Amounts, ft \in FairFtNames :
          MSF_GetAvailableQuorums(cnt, amt, ft)
    \/ \E cnt \in Counts, amt \in Amounts, ft \in FairFtNames :
          DSF_Find("g1", cnt, amt, ft)
    \/ DS_UpdateAssignment("g1")
    \/ DS_RecordHistory("g1", OkResult(Chosen("g1")))

SpecFair == InitFair /\ [][NextFair]_vars

-----------------------------------------------------------------------------
(* Selections on the database store with the row each one writes to        *)
(* transaction_history: two live nodes as in the pool of the repeated      *)
(* selections, no other activity, and each write statement a transaction   *)
(* of its own that the database may refuse.                                *)

\* what an earlier selection, at time 0, has left in a row
TxnShapes == {<<0, ZeroTime>>, <<1, 0>>}

InitTxn ==
    /\ backend = "db"
    /\ now = FairNow
    /\ quorums = EmptyMap
    /\ \E shape \in [DIDs -> TxnShapes] :
          /\ table = [d \in DIDs |-> FairRow(d, shape[d])]
          /\ assigned = [d \in DIDs |-> shape[d][1]]
    /\ mu = NoProc
    /\ peerIndex = IndexOf(quorums)
    /\ history = <<>>
    /\ balanceHistory = <<>>
    /\ quorumRows = {}
    /\ pc = [g \in Procs |-> "idle"]
    /\ local = [g \in Procs |-> IdleLocal]
    /\ resp = "none"

RECURSIVE GCD(_, _)
GCD(a, b) == IF b = 0 THEN a ELSE GCD(b, a % b)

\* transactionAmount / float64(count), as the exact quotient in lowest terms
RequiredBalance(transactionAmount, count) ==
    <<transactionAmount \div GCD(transactionAmount, count),
      count \div GCD(transactionAmount, count)>>

\* a row of transaction_history
TransactionHistory(transactionAmount, quorumDIDs, count) ==
    [TransactionAmount |-> transactionAmount,
     QuorumDIDs |-> Marshal(quorumDIDs),
     RequiredBalance |-> RequiredBalance(transactionAmount, count)]

\* DBStore.GetAvailableQuorums(cnt, "", amt, ft), up to the length check: the
\* query, which the database may refuse (if err != nil { return nil, err }),
\* and the length check
DSA_Find(g, cnt, amt, ft) ==
    /\ backend = "db"
    /\ Quiet
    /\ \/ /\ resp' = "storage error"
          /\ UNCHANGED procVars
       \/ \E rows \in DS_QueryResults(EffectiveCount(cnt), <<>>, amt, ft) :
             IF Len(rows) < EffectiveCount(cnt)
             THEN /\ resp' = "error"
                  /\ UNCHANGED procVars
             ELSE /\ Len(history) < MaxHistory
                  /\ \A i \in 1..Len(rows) :
                        /\ table[rows[i]].AssignmentCount < MaxAssign
                        /\ assigned[rows[i]] < MaxAssign
                  /\ local' = [local EXCEPT ![g] =
                                  [count |-> EffectiveCount(cnt),
                                   quorums |-> [i \in 1..Len(rows) |-> Fetched(rows[i])],
                                   i |-> 1,
                                   transactionAmount |-> amt]]
                  /\ pc' = [pc EXCEPT ![g] = "update"]
                  /\ resp' = "none"
    /\ UNCHANGED <<backend, now, memVars, dbVars, assigned>>

\* one turn of the loop; the result of the update statement is dropped
DSA_UpdateAssignment(g) ==
    /\ backend = "db"
    /\ pc[g] = "update"
    /\ local[g].i <= Len(local[g].quorums)
    /\ \E written \in BOOLEAN :
          LET q == local[g].quorums[local[g].i]
          IN table' = [d \in DOMAIN table |->
                          IF written /\ table[d].ID = q.ID
                          THEN [table[d] EXCEPT
                                   !.AssignmentCount = NewAssignmentCount(q, @),
                                   !.LastAssignment = now]
                          ELSE table[d]]
    /\ local' = [local EXCEPT ![g].i = @ + 1]
    /\ UNCHANGED <<backend, now, memVars, quorumRows, history, balanceHistory,
                   pc, resp, assigned>>

\* after the loop: ds.db.Create(&history), its result dropped, and the return
\* of result
DSA_RecordHistory(g) ==
    /\ backend = "db"
    /\ pc[g] = "update"
    /\ local[g].i > Len(local[g].quorums)
    /\ \E recorded \in BOOLEAN :
          history' =
              IF recorded
              THEN Append(history,
                          TransactionHistory(local[g].transactionAmount, Chosen(g),
                                             local[g].count))
              ELSE history
    /\ resp' = "ok"
    /\ assigned' = [d \in DIDs |-> IF d \in StillThere(g) THEN assigned[d] + 1 ELSE assigned[d]]
    /\ pc' = [pc EXCEPT ![g] = "idle"]
    /\ local' = [local EXCEPT ![g] = IdleLocal]
    /\ UNCHANGED <<backend, now, memVars, quorumRows, table, balanceHistory>>

NextTxn ==
    \/ \E cnt \in Counts, amt \in Amounts : DSA_Find("g1", cnt, amt, <<>>)
    \/ DSA_UpdateAssignment("g1")
    \/ DSA_RecordHistory("g1")

SpecTxn == InitTxn /\ [][NextTxn]_vars

-----------------------------------------------------------------------------
(* The two stores side by side: every request, and every run of the        *)
(* sweeper, is served by the memory store and then, at the same time of    *)
(* the clock and with the same inputs, by the database store; the clock    *)
(* moves between two requests.  backend is the store whose turn it is,     *)
(* local["g1"] the request the memory store has served and the database    *)
(* store has not, and resp what the store that served last returned.       *)

BothCounts == {1, 2}
BothRequests == {NodeRequest(d, ConcBalance, ConcTokens) : d \in DIDs}

InitBoth == Init /\ backend = "memory"

\* the memory store takes a request
MemoryTurn == backend = "memory" /\ local["g1"] = IdleLocal

\* the memory store has served the request op
Served(op) ==
    /\ local' = [local EXCEPT !["g1"] = op @@ IdleLocal]
    /\ backend' = "db"
    /\ UNCHANGED <<now, mu, dbVars, pc>>

\* the database store serves the request of this kind that is waiting for it
DBTurn(kind) == backend = "db" /\ local["g1"].kind = kind

\* the database store has served the request
ServedBoth ==
    /\ local' = [local EXCEPT !["g1"] = IdleLocal]
    /\ backend' = "memory"
    /\ UNCHANGED <<now, memVars, quorumRows, balanceHistory, pc>>

BM_RegisterQuorum(req) ==
    /\ MemoryTurn
    /\ MS_RegisterBody(req)
    /\ resp' = "none"
    /\ Served([kind |-> "register", req |-> req])

\* the nodes send the balance they registered with, so that no row goes to
\* balance_history
BD_RegisterQuorum ==
    /\ DBTurn("register")
    /\ DS_RegisterRows(local["g1"].req)
    /\ resp' = "none"
    /\ ServedBoth
    /\ UNCHANGED history

BM_ConfirmAvailability(did) ==
    /\ MemoryTurn
    /\ MS_ConfirmBody(did)
    /\ Served([kind |-> "confirm", did |-> did])

BD_ConfirmAvailability ==
    /\ DBTurn("confirm")
    /\ DS_ConfirmRows(local["g1"].did)
    /\ ServedBoth
    /\ UNCHANGED <<history, assigned>>

BM_UpdateHeartbeat(did) ==
    /\ MemoryTurn
    /\ MS_HeartbeatBody(did)
    /\ Served([kind |-> "heartbeat", did |-> did])

BD_UpdateHeartbeat ==
    /\ DBTurn("heartbeat")
    /\ DS_HeartbeatRows(local["g1"].did)
    /\ ServedBoth
    /\ UNCHANGED <<history, assigned>>

BM_UnregisterQuorum(did) ==
    /\ MemoryTurn
    /\ MS_UnregisterBody(did)
    /\ Served([kind |-> "unregister", did |-> did])

BD_UnregisterQuorum ==
    /\ DBTurn("unregister")
    /\ DS_UnregisterRows(local["g1"].did)
    /\ ServedBoth
    /\ UNCHANGED history

BM_CleanupStaleQuorums ==
    /\ MemoryTurn
    /\ MS_CleanupBody
    /\ resp' = "none"
    /\ Served([kind |-> "cleanup"])

BD_CleanupStaleQuorums ==
    /\ DBTurn("cleanup")
    /\ DS_CleanupRows
    /\ ServedBoth
    /\ UNCHANGED <<history, assigned>>

\* MemoryStore.GetAvailableQuorums(cnt, lc, amt, ft)
BM_GetAvailableQuorums(cnt, lc, amt, ft) ==
    /\ UNCHANGED peerIndex
    /\ MemoryTurn
    /\ Len(history) < MaxHistory
    /\ \A d \in DOMAIN quorums : quorums[d].AssignmentCount < MaxAssign
    /\ \A d \in DOMAIN table : table[d].AssignmentCount < MaxAssign
    /\ \E result \in MS_Outcomes(cnt, lc, amt, ft) :
          IF result.ok
          THEN /\ quorums' = MS_Assign(quorums, result.quorums)
               /\ resp' = "ok"
               /\ assigned' = Counted(result.quorums)
          ELSE /\ resp' = "error"
               /\ UNCHANGED <<quorums, assigned>>
    /\ Served([kind |-> "select", count |-> cnt, lastCharTID |-> lc,
               transactionAmount |-> amt, ftName |-> ft])

\* DBStore.GetAvailableQuorums with the same inputs, its statements one after
\* the other with no other request between them: the query, the length check,
\* the update of every row found and the insert into transaction_history
BD_GetAvailableQuorums ==
    /\ DBTurn("select")
    /\ LET op == local["g1"]
           count == EffectiveCount(op.count)
       IN \E found \in DS_QueryResults(count, op.lastCharTID,
                                        op.transactionAmount, op.ftName) :
             IF Len(found) < count
             THEN /\ resp' = "error"
                  /\ UNCHANGED <<table, history, assigned>>
             ELSE /\ table' = [d \in DOMAIN table |->
                                  IF InList(d, found)
                                  THEN [table[d] EXCEPT
                                           !.AssignmentCount =
                                               NewAssignmentCount(Fetched(d), @),
                                           !.LastAssignment = now]
                                  ELSE table[d]]
                  /\ history' = Append(history, "txn")
                  /\ resp' = "ok"
                  /\ assigned' = Counted(found)
    /\ ServedBoth

NextBoth ==
    \/ MemoryTurn /\ Tick
    \/ \E req \in BothRequests : BM_RegisterQuorum(req)
    \/ BD_RegisterQuorum
    \/ \E did \in DIDs : BM_ConfirmAvailability(did)
    \/ BD_ConfirmAvailability
    \/ \E did \in DIDs : BM_UpdateHeartbeat(did)
    \/ BD_UpdateHeartbeat
    \/ \E did \in DIDs : BM_UnregisterQuorum(did)
    \/ BD_UnregisterQuorum
    \/ BM_CleanupStaleQuorums
    \/ BD_CleanupStaleQuorums
    \/ \E cnt \in BothCounts, amt \in Amounts, ft \in FairFtNames :
          BM_GetAvailableQuorums(cnt, <<>>, amt, ft)
    \/ BD_GetAvailableQuorums

SpecBoth == InitBoth /\ [][NextBoth]_vars

-----------------------------------------------------------------------------
(* The error of a selection that finds too few records: five nodes with    *)
(* the balances 10, 20, 30, 40 and 50, each registered at time 0 or not    *)
(* registered, all with one token list, and selections served one at a     *)
(* time.  local["g1"] holds the request served last and, if it failed,     *)
(* the values its error carries.                                           *)

ErrDIDs == FairDIDs \cup {<<"x", "x">>}
ErrBalance(d) == 10 * (Cardinality({e \in ErrDIDs : StrLess(e, d)}) + 1)
ErrCounts == {0, 3, 5}
ErrAmounts == {60, 100}
ErrFtNames == {<<>>, RBT, TRI}

InitErr ==
    /\ backend \in {"memory", "db"}
    /\ now = 0
    /\ \E present \in SUBSET ErrDIDs, tokens \in TokenLists :
          /\ quorums = IF backend = "memory"
                       THEN [d \in present |->
                                NewQuorum(NodeRequest(d, ErrBalance(d), tokens))]
                       ELSE EmptyMap
          /\ table = IF backend = "db"
                     THEN [d \in present |->
                              QuorumDB(NodeRequest(d, ErrBalance(d), tokens),
                                       Cardinality({e \in present : StrLess(e, d)}) + 1)]
                     ELSE EmptyMap
    /\ mu = NoProc
    /\ peerIndex = IndexOf(quorums)
    /\ history = <<>>
    /\ balanceHistory = <<>>
    /\ quorumRows = {}
    /\ pc = [g \in Procs |-> "idle"]
    /\ local = [g \in Procs |-> IdleLocal]
    /\ resp = "none"
    /\ assigned = [d \in DIDs |-> 0]

\* the arguments of fmt.Errorf("not enough ... Found %d, need %d (required
\* balance: %.4f)", ...): the values the error carries
NotEnough(found, count, requiredBalance) ==
    [found |-> found, need |-> count, requiredBalance |-> requiredBalance]

\* the request a selection has served, with the error it returned
Selected(cnt, lc, amt, ft, err) ==
    local' = [local EXCEPT !["g1"] =
                 [kind |-> "select", count |-> cnt, lastCharTID |-> lc,
                  transactionAmount |-> amt, ftName |-> ft, err |-> err] @@ IdleLocal]

NoError == NotEnough(0, 0, <<0, 1>>)

\* MemoryStore.GetAvailableQuorums(cnt, lc, amt, ft)
MSE_GetAvailableQuorums(cnt, lc, amt, ft) ==
    /\ UNCHANGED peerIndex
    /\ MS_Call
    /\ LET count == EffectiveCount(cnt)
           availableQuorums == MS_Available(count, lc, amt, ft)
       IN IF Cardinality(availableQuorums) < count
          THEN /\ resp' = "error"
               /\ Selected(cnt, lc, amt, ft,
                           NotEnough(Cardinality(availableQuorums), count,
                                     RequiredBalance(amt, count)))
               /\ UNCHANGED quorums
          ELSE \E sorted \in SortedOrders(availableQuorums, quorums, ft) :
                  /\ \A d \in availableQuorums : quorums[d].AssignmentCount < MaxAssign
                  /\ quorums' = MS_Assign(quorums, SubSeq(sorted, 1, count))
                  /\ resp' = "ok"
                  /\ Selected(cnt, lc, amt, ft, NoError)
    /\ UNCHANGED <<backend, now, mu, dbVars, pc, assigned>>

\* DBStore.GetAvailableQuorums(cnt, lc, amt, ft), its statements one after
\* the other with no other request between them
DSE_GetAvailableQuorums(cnt, lc, amt, ft) ==
    /\ backend = "db"
    /\ LET count == EffectiveCount(cnt)
       IN \E rows \in DS_QueryResults(count, lc, amt, ft) :
             IF Len(rows) < count
             THEN /\ resp' = "error"
                  /\ Selected(cnt, lc, amt, ft,
                              NotEnough(Len(rows), count, RequiredBalance(amt, count)))
                  /\ UNCHANGED <<table, history>>
             ELSE /\ Len(history) < MaxHistory
                  /\ \A i \in 1..Len(rows) : table[rows[i]].AssignmentCount < MaxAssign
                  /\ table' = [d \in DOMAIN table |->
                                  IF InList(d, rows)
                                  THEN [table[d] EXCEPT
                                           !.AssignmentCount =
                                               NewAssignmentCount(Fetched(d), @),
                                           !.LastAssignment = now]
                                  ELSE table[d]]
                  /\ history' = Append(history, "txn")
                  /\ resp' = "ok"
                  /\ Selected(cnt, lc, amt, ft, NoError)
    /\ UNCHANGED <<backend, now, memVars, quorumRows, balanceHistory, pc, assigned>>

NextErr ==
    \/ Tick
    \/ \E cnt \in ErrCounts, lc \in LastChars, amt \in ErrAmounts, ft \in ErrFtNames :
          MSE_GetAvailableQuorums(cnt, lc, amt, ft)
    \/ \E cnt \in ErrCounts, lc \in LastChars, amt \in ErrAmounts, ft \in ErrFtNames :
          DSE_GetAvailableQuorums(cnt, lc, amt, ft)

SpecErr == InitErr /\ [][NextErr]_vars

-----------------------------------------------------------------------------
(* GetHealthStatus.  local["g1"] holds the summary returned last; on the   *)
(* database store the method is two COUNT statements, and between them,    *)
(* when requests are served concurrently, local["g1"] holds the first      *)
(* count.                                                                  *)

\* the counts of models.HealthStatus
HealthStatus(totalQuorums, availableQuorums) ==
    [TotalQuorums |-> totalQuorums, AvailableQuorums |-> availableQuorums]

\* the summary a call has returned
ReturnHealth(g, health) ==
    local' = [local EXCEPT ![g] = [health |-> health] @@ IdleLocal]

\* len(ms.quorums) and the loop counting availableQuorums
MS_HealthStatus ==
    HealthStatus(Cardinality(DOMAIN quorums),
                 Cardinality({d \in DOMAIN quorums :
                                 /\ quorums[d].Available
                                 /\ PingedRecently(quorums[d].LastPing, now)}))

\* MemoryStore.GetHealthStatus: ms.mu.RLock(), which waits while a writer
\* holds the mutex, the body, and the deferred RUnlock in one step
MS_GetHealthStatus(g) ==
    /\ MS_Call
    /\ pc[g] = "idle"
    /\ ReturnHealth(g, MS_HealthStatus)
    /\ resp' = "none"
    /\ UNCHANGED <<backend, now, memVars, dbVars, pc, assigned>>

\* SELECT count(*) FROM quorums
DS_CountAll == Cardinality(DOMAIN table)

\* faulty variant: the count without the last_ping condition
DS_CountAvailable_FlagOnly ==
    Cardinality({d \in DOMAIN table : table[d].Available = TRUE})

\* SELECT count(*) FROM quorums WHERE available = true AND last_ping > now - 5 min
DS_CountAvailable ==
    Cardinality({d \in DOMAIN table :
                    /\ table[d].Available = TRUE
                    /\ PingedRecently(table[d].LastPing, now)})

\* DBStore.GetHealthStatus with no other request between its two statements
DS_GetHealthStatus(g) ==
    /\ backend = "db"
    /\ pc[g] = "idle"
    /\ ReturnHealth(g, HealthStatus(DS_CountAll, DS_CountAvailable))
    /\ resp' = "none"
    /\ UNCHANGED <<backend, now, memVars, dbVars, pc, assigned>>

\* the first statement of DBStore.GetHealthStatus
DSC_CountAll(g) ==
    /\ backend = "db"
    /\ pc[g] = "idle"
    /\ local' = [local EXCEPT ![g] = [totalQuorums |-> DS_CountAll] @@ IdleLocal]
    /\ pc' = [pc EXCEPT ![g] = "health"]
    /\ resp' = "none"
    /\ UNCHANGED <<backend, now, memVars, dbVars, assigned>>

\* the second statement, and the return
DSC_CountAvailable(g) ==
    /\ backend = "db"
    /\ pc[g] = "health"
    /\ ReturnHealth(g, HealthStatus(local[g].totalQuorums, DS_CountAvailable))
    /\ pc' = [pc EXCEPT ![g] = "idle"]
    /\ resp' = "none"
    /\ UNCHANGED <<backend, now, memVars, dbVars, assigned>>

\* the requests of the nodes beside the summaries
HealthNodes ==
    \/ \E did \in DIDs : MS_RegisterQuorum(NodeRequest(did, ConcBalance, ConcTokens))
    \/ \E did \in DIDs : DS_RegisterQuorum(NodeRequest(did, ConcBalance, ConcTokens))
    \/ \E did \in DIDs : MS_UnregisterQuorum(did)
    \/ \E did \in DIDs : DS_UnregisterQuorum(did)

\* requests served one at a time, and the sweeper
NextHealth ==
    \/ Tick
    \/ HealthNodes
    \/ MS_CleanupStaleQuorums
    \/ DS_CleanupStaleQuorums
    \/ MS_GetHealthStatus("g1")
    \/ DS_GetHealthStatus("g1")

SpecHealth == Init /\ [][NextHealth]_vars

\* a summary served while the nodes register and unregister
NextHealthConc ==
    \/ Tick
    \/ HealthNodes
    \/ MS_GetHealthStatus("g1")
    \/ DSC_CountAll("g1")
    \/ DSC_CountAvailable("g1")

SpecHealthConc == Init /\ [][NextHealthConc]_vars

-----------------------------------------------------------------------------
(* startCleanupRoutine on the database store: goroutine g2 is the loop     *)
(* for { <-ticker.C; store.CleanupStaleQuorums() }.  local["g2"].C is the  *)
(* number of ticks waiting in ticker.C, a channel of capacity 1, and       *)
(* local["g2"].failed tells that the database refused the statement of     *)
(* the run before.  The nodes register and send heartbeats meanwhile.      *)

SweeperLocal(ticks, failed) == [C |-> ticks, failed |-> failed] @@ IdleLocal

InitSweep ==
    /\ Init
    /\ backend = "db"

\* the sweeper goroutine as main starts it: at its first receive
SweeperStarted == "C" \in DOMAIN local["g2"]

\* go startCleanupRoutine(dbStore)
SW_Start ==
    /\ backend = "db"
    /\ ~SweeperStarted
    /\ local' = [local EXCEPT !["g2"] = SweeperLocal(0, FALSE)]
    /\ resp' = "none"
    /\ UNCHANGED <<backend, now, memVars, dbVars, pc, assigned>>

\* the ticker fires as the clock moves: a tick is sent to ticker.C, and
\* dropped if one is waiting there
SW_Tick ==
    /\ SweeperStarted
    /\ \E t \in Clock : t > now
    /\ now' = CHOOSE t \in Clock : t > now /\ \A u \in Clock : u > now => t <= u
    /\ local' = [local EXCEPT !["g2"].C = 1]
    /\ resp' = "none"
    /\ UNCHANGED <<backend, memVars, dbVars, pc, assigned>>

\* <-ticker.C
SW_Receive ==
    /\ SweeperStarted
    /\ pc["g2"] = "idle"
    /\ local["g2"].C = 1
    /\ local' = [local EXCEPT !["g2"].C = 0]
    /\ pc' = [pc EXCEPT !["g2"] = "sweep"]
    /\ resp' = "none"
    /\ UNCHANGED <<backend, now, memVars, dbVars, assigned>>

\* faulty variant: the loop left when a run fails
SW_Loop_Returning(failed) == IF failed THEN "stopped" ELSE "idle"

\* where the goroutine goes after a run: for { ... } has no exit, and
\* CleanupStaleQuorums returns a count and no error
SW_Loop(failed) == "idle"

\* store.CleanupStaleQuorums(), whose statement the database may refuse
\* (written: it went through), and the log line
SW_Cleanup ==
    /\ SweeperStarted
    /\ pc["g2"] = "sweep"
    /\ \E written \in BOOLEAN :
          /\ IF written
             THEN DS_CleanupRows
             ELSE /\ resp' = "none"
                  /\ UNCHANGED table
          /\ local' = [local EXCEPT !["g2"].failed = ~written]
          /\ pc' = [pc EXCEPT !["g2"] = SW_Loop(~written)]
    /\ UNCHANGED <<backend, now, memVars, quorumRows, history, balanceHistory,
                   assigned>>

NextSweep ==
    \/ SW_Start
    \/ SW_Tick
    \/ SW_Receive
    \/ SW_Cleanup
    \/ \E did \in DIDs : DS_RegisterQuorum(NodeRequest(did, ConcBalance, ConcTokens))
    \/ \E did \in DIDs : DS_UpdateHeartbeat(did)

\* the scheduler runs a goroutine that can take a step
SpecSweep ==
    /\ InitSweep
    /\ [][NextSweep]_vars
    /\ WF_vars(SW_Receive)
    /\ WF_vars(SW_Cleanup)

-----------------------------------------------------------------------------
(* The peer index of the memory store: nodes register under either of two  *)
(* peer ids and unregister, requests are served one at a time, and the     *)
(* sweeper runs between them.                                              *)

PeerIDs == {"p1", "p2"}

NextIndex ==
    \/ Tick
    \/ \E did \in DIDs, peerID \in PeerIDs :
          MS_RegisterQuorum(Request(did, peerID, ConcBalance, NodeType, ConcTokens))
    \/ \E did \in DIDs : MS_UnregisterQuorum(did)
    \/ MS_CleanupStaleQuorums

SpecIndex == InitBoth /\ [][NextIndex]_vars

-----------------------------------------------------------------------------
(* Concurrent balance writes on the database store: two request goroutines *)
(* run UpdateQuorumBalance and RegisterQuorum, each a lookup, an insert    *)
(* into balance_history if the balance differs, and a write of the row;    *)
(* the statements of the two goroutines interleave, and every statement    *)
(* goes through.  local[g] holds the request of g and the row it fetched.  *)

\* the rows of balance_history a run may hold
MaxChain == 2

ChainBalances == {10, 20}
\* the requests: a balance update, or a registration with a balance
ChainOps ==
    {[kind |-> k, req |-> NodeRequest(d, b, <<>>)] :
        k \in {"balance", "register"}, d \in DIDs, b \in ChainBalances}

InitChain == InitReg /\ backend = "db"

\* ds.db.Where("did = ?", did).First(&quorum), and the error return of
\* UpdateQuorumBalance when there is no row
DSC_First(g, op) ==
    /\ backend = "db"
    /\ pc[g] = "idle"
    /\ IF op.req.DID \notin DOMAIN table /\ op.kind = "balance"
       THEN /\ resp' = "not found"
            /\ UNCHANGED procVars
       ELSE /\ local' = [local EXCEPT ![g] =
                            [op |-> op,
                             found |-> op.req.DID \in DOMAIN table,
                             quorum |-> IF op.req.DID \in DOMAIN table
                                        THEN table[op.req.DID]
                                        ELSE NewRow(op.req)] @@ IdleLocal]
            /\ pc' = [pc EXCEPT ![g] = "track"]
            /\ resp' = "none"
    /\ UNCHANGED <<backend, now, memVars, dbVars, assigned>>

\* if quorum.Balance != newBalance { ds.db.Create(&balanceHistory) }, with the
\* balance of the row as it was fetched
DSC_Track(g) ==
    /\ backend = "db"
    /\ pc[g] = "track"
    /\ Len(balanceHistory) < MaxChain
    /\ LET op == local[g].op
       IN IF local[g].found
          THEN DS_TrackBalance(op.req.DID, local[g].quorum.Balance, op.req.Balance,
                               IF op.kind = "balance"
                               THEN "Balance update" ELSE "Registration update")
          ELSE UNCHANGED balanceHistory
    /\ pc' = [pc EXCEPT ![g] = "write"]
    /\ resp' = "none"
    /\ UNCHANGED <<backend, now, memVars, quorumRows, table, history, local, assigned>>

\* Model(&quorum).Update("balance", newBalance), Model(&existingQuorum)
\* .Updates(updates) or Create(&quorum): an UPDATE ... WHERE id = ?, or an
\* INSERT that the unique index on did refuses if the row is there by now
DSC_Write(g) ==
    /\ backend = "db"
    /\ pc[g] = "write"
    /\ LET op == local[g].op
           did == op.req.DID
       IN IF local[g].found
          THEN /\ table' =
                      [d \in DOMAIN table |->
                          IF table[d].ID # local[g].quorum.ID THEN table[d]
                          ELSE IF op.kind = "balance"
                          THEN [table[d] EXCEPT !.Balance = op.req.Balance]
                          ELSE [table[d] EXCEPT
                                   !.PeerID = op.req.PeerID,
                                   !.Balance = op.req.Balance,
                                   !.DIDType = op.req.DIDType,
                                   !.Available = TRUE,
                                   !.LastPing = now,
                                   !.SupportedTokens = Marshal(op.req.SupportedTokens)]]
               /\ resp' = "none"
               /\ UNCHANGED assigned
          ELSE IF did \in DOMAIN table
               THEN /\ resp' = "storage error"
                    /\ UNCHANGED <<table, assigned>>
               ELSE /\ table' = [d \in DOMAIN table \cup {did} |->
                                    IF d = did THEN NewRow(op.req) ELSE table[d]]
                    /\ assigned' = [assigned EXCEPT ![did] = 0]
                    /\ resp' = "none"
    /\ pc' = [pc EXCEPT ![g] = "idle"]
    /\ local' = [local EXCEPT ![g] = IdleLocal]
    /\ UNCHANGED <<backend, now, memVars, quorumRows, history, balanceHistory>>

NextChain ==
    \E g \in Procs :
        \/ \E op \in ChainOps : DSC_First(g, op)
        \/ DSC_Track(g)
        \/ DSC_Write(g)

SpecChain == InitChain /\ [][NextChain]_vars

-----------------------------------------------------------------------------
(* Nodes of the database store that register once with one balance and    *)
(* then report other balances through UpdateQuorumBalance, while the clock *)
(* moves and the sweeper runs.                                             *)

NextBalance ==
    \/ Tick
    \/ \E did \in DIDs : DS_RegisterQuorum(NodeRequest(did, ConcBalance, ConcTokens))
    \/ \E did \in DIDs, balance \in Balances : DS_UpdateQuorumBalance(did, balance)
    \/ DS_CleanupStaleQuorums

SpecBalance == InitSweep /\ [][NextBalance]_vars

-----------------------------------------------------------------------------
(* The default count: eight nodes with the balances 10, 20, ... 80, seven  *)
(* or all of them in the store with one token list, live, and with the     *)
(* assignment counts and times earlier selections have left; selections   *)
(* that name seven records or no positive count are served one at a time.  *)
(* local["g1"] holds the request served last, with its error.              *)

DefaultDIDs == ErrDIDs \cup {<<"x", "y">>, <<"y", "x">>, <<"y", "y">>}
Rank(d) == Cardinality({e \in DefaultDIDs : StrLess(e, d)})
DefaultBalance(d) == 10 * (Rank(d) + 1)
\* never assigned, assigned once at time 0, assigned once at FairNow
DefaultShape(d) ==
    IF Rank(d) % 3 = 0 THEN <<0, ZeroTime>>
    ELSE IF Rank(d) % 3 = 1 THEN <<1, 0>> ELSE <<1, FairNow>>
\* the count parameter: counts the stores replace, and the default itself
DefaultCounts == {-1, 0, DefaultCount}
\* amounts a seventh of which all eight, seven and six of the balances reach
DefaultAmounts == {70, 140, 210}
DefaultFtNames == {<<>>, TRI}

InitDefault ==
    /\ backend \in {"memory", "db"}
    /\ now = FairNow
    /\ \E present \in SUBSET DefaultDIDs, tokens \in TokenLists :
          /\ Cardinality(present) >= DefaultCount
          /\ quorums = IF backend = "memory"
                       THEN [d \in present |->
                                [NewQuorum(NodeRequest(d, DefaultBalance(d), tokens))
                                    EXCEPT !.RegistrationTime = 0,
                                           !.AssignmentCount = DefaultShape(d)[1],
                                           !.LastAssignment = DefaultShape(d)[2]]]
                       ELSE EmptyMap
          /\ table = IF backend = "db"
                     THEN [d \in present |->
                              [QuorumDB(NodeRequest(d, DefaultBalance(d), tokens),
                                        Cardinality({e \in present : StrLess(e, d)}) + 1)
                                  EXCEPT !.RegistrationTime = 0,
                                         !.AssignmentCount = DefaultShape(d)[1],
                                         !.LastAssignment = DefaultShape(d)[2]]]
                     ELSE EmptyMap
    /\ mu = NoProc
    /\ peerIndex = IndexOf(quorums)
    /\ history = <<>>
    /\ balanceHistory = <<>>
    /\ quorumRows = {}
    /\ pc = [g \in Procs |-> "idle"]
    /\ local = [g \in Procs |-> IdleLocal]
    /\ resp = "none"
    /\ assigned = [d \in DIDs |-> 0]

NextDefault ==
    \/ Tick
    \/ \E cnt \in DefaultCounts, amt \in DefaultAmounts, ft \in DefaultFtNames :
          MSE_GetAvailableQuorums(cnt, <<>>, amt, ft)
    \/ \E cnt \in DefaultCounts, amt \in DefaultAmounts, ft \in DefaultFtNames :
          DSE_GetAvailableQuorums(cnt, <<>>, amt, ft)

SpecDefault == InitDefault /\ [][NextDefault]_vars

-----------------------------------------------------------------------------
(* What GetAvailableQuorums returns *)

\* json.Unmarshal of a stored supported_tokens text
Unmarshal(text) == CHOOSE tokens \in TokenLists : Marshal(tokens) = text

\* the records of the store in use, supported_tokens as a list
Registry ==
    IF backend = "memory"
    THEN quorums
    ELSE [d \in DOMAIN table |->
             [table[d] EXCEPT !.SupportedTokens = Unmarshal(table[d].SupportedTokens)]]

\* the records a call with these arguments has to choose from in the current
\* state: what the filter loop keeps, what the WHERE clause matches
Candidates(cnt, lc, amt, ft) ==
    IF backend = "memory"
    THEN MS_Available(EffectiveCount(cnt), lc, amt, ft)
    ELSE DS_Where(EffectiveCount(cnt), lc, amt, ft)

\* the lists a call with these arguments can return without error in the
\* current state
Returns(cnt, lc, amt, ft) ==
    IF backend = "memory"
    THEN {r.quorums : r \in {o \in MS_Outcomes(cnt, lc, amt, ft) : o.ok}}
    ELSE {rows \in DS_QueryResults(EffectiveCount(cnt), lc, amt, ft) :
             ~(Len(rows) < EffectiveCount(cnt))}

\* such a call can return an error in the current state
CanFail(cnt, lc, amt, ft) ==
    IF backend = "memory"
    THEN ErrResult \in MS_Outcomes(cnt, lc, amt, ft)
    ELSE \E rows \in DS_QueryResults(EffectiveCount(cnt), lc, amt, ft) :
            Len(rows) < EffectiveCount(cnt)

\* the step just taken ended a selection with an error / with a list
SelectFailed == resp = "error"
SelectSucceeded == resp = "ok"

\* C1: a selection that finds fewer than count eligible records fails, and
\* the failing call changes no record (so no assignment_count and no
\* last_assignment) and appends nothing to the audit table, on the memory
\* store and on the database store.
C1_FailedSelectIsNoOp ==
    /\ [](\A cnt \in Counts, lc \in LastChars, amt \in Amounts, ft \in FtNames :
             Cardinality(Candidates(cnt, lc, amt, ft)) < EffectiveCount(cnt)
                => /\ Returns(cnt, lc, amt, ft) = {}
                   /\ CanFail(cnt, lc, amt, ft))
    /\ [][resp' = "error" => UNCHANGED <<quorums, table, history, pc, local>>]_vars

\* a selection has just failed although a live record that was assigned before
\* is registered, and (database store) the audit table holds a row
C1_Witness ==
    /\ SelectFailed
    /\ \E d \in DOMAIN Registry :
          /\ Registry[d].AssignmentCount > 0
          /\ Registry[d].Available
          /\ PingedRecently(Registry[d].LastPing, now)
    /\ backend = "db" => Len(history) > 0

\* C2: a selection that succeeds returns exactly count entries (the default
\* when count <= 0), whatever the registry, amount, token filter and
\* last-character filter.
C2_ExactlyCount ==
    /\ [](\A cnt \in Counts, lc \in LastChars, amt \in Amounts, ft \in FtNames :
             \A list \in Returns(cnt, lc, amt, ft) : Len(list) = EffectiveCount(cnt))
    /\ [][\A g \in Procs, result \in Results :
             DS_RecordHistory(g, result) => Len(result.quorums) = local[g].count]_vars

\* a selection has just returned one record while two live records are
\* registered
C2_Witness ==
    /\ SelectSucceeded
    /\ Cardinality({d \in DOMAIN Registry : Registry[d].LastAssignment = now}) = 1
    /\ Cardinality({d \in DOMAIN Registry :
                       Registry[d].Available /\ PingedRecently(Registry[d].LastPing, now)}) = 2

\* the records the selection just ended has returned
JustAssigned == {d \in DOMAIN Registry : Registry[d].LastAssignment = now}

\* C7: every record a selection returns has, when it is selected, a balance
\* of at least transactionAmount / count.
C7_SufficientBalance ==
    \A cnt \in Counts, lc \in LastChars, amt \in Amounts, ft \in FtNames :
        \A list \in Returns(cnt, lc, amt, ft) :
            \A i \in 1..Len(list) :
                Registry[list[i]].Balance * EffectiveCount(cnt) >= amt

\* a selection has just returned two records, one with balance 7 (so the
\* amount was 10 and the required balance 5)
C7_Witness ==
    /\ SelectSucceeded
    /\ Cardinality(JustAssigned) = 2
    /\ \E d \in JustAssigned : Registry[d].Balance = 7

\* C8: every record a selection returns is live when it is selected: it is
\* marked available and its last ping is less than five minutes old; a record
\* pinged five minutes ago or earlier is never returned.
C8_OnlyLive ==
    \A cnt \in Counts, lc \in LastChars, amt \in Amounts, ft \in FtNames :
        \A list \in Returns(cnt, lc, amt, ft) :
            \A i \in 1..Len(list) :
                /\ Registry[list[i]].Available
                /\ now - Registry[list[i]].LastPing < LivenessWindow

\* a selection has just returned one record while the other record, marked
\* available and never assigned, was pinged exactly five minutes ago
C8_Witness ==
    /\ SelectSucceeded
    /\ Cardinality(JustAssigned) = 1
    /\ \E d \in DOMAIN Registry :
          /\ Registry[d].Available
          /\ Registry[d].AssignmentCount = 0
          /\ now - Registry[d].LastPing = LivenessWindow

\* C9: with a non-empty token filter every record a selection returns lists
\* the requested token, or has an empty supported_tokens list while the
\* filter is RBT; a record with an empty list is returned for no other token.
C9_TokenFilter ==
    \A cnt \in Counts, lc \in LastChars, amt \in Amounts, ft \in FtNames \ {<<>>} :
        \A list \in Returns(cnt, lc, amt, ft) :
            \A i \in 1..Len(list) :
                LET tokens == Registry[list[i]].SupportedTokens
                IN \/ InList(ft, tokens)
                   \/ tokens = <<>> /\ ft = RBT

\* the eligible records of a TRI selection: live, with sufficient balance,
\* listing TRI
TRIEligible(cnt, amt) ==
    {d \in DOMAIN Registry :
        /\ Registry[d].Available
        /\ now - Registry[d].LastPing < LivenessWindow
        /\ Registry[d].Balance * EffectiveCount(cnt) >= amt
        /\ InList(TRI, Registry[d].SupportedTokens)}

\* the identifiers in S in ascending order
Ascending(S) ==
    CHOOSE s \in Perms(S) : \A i, j \in 1..Len(s) : i < j => StrLess(s[i], s[j])

\* what a selection leaves alone in a record
Membership(r) == <<r.Balance, r.Available, r.LastPing, r.SupportedTokens>>

\* C10: a TRI selection returns the first count eligible identifiers in
\* ascending order, whatever the assignment counts and the last-character
\* filter, and a selection changes neither the set of records nor anything
\* eligibility depends on: two TRI selections in a row, the membership
\* unchanged between them, return the same list in the same order.
C10_TRIDeterministic ==
    /\ [](\A cnt \in Counts, lc \in LastChars, amt \in Amounts :
             \A list \in Returns(cnt, lc, amt, TRI) :
                list = SubSeq(Ascending(TRIEligible(cnt, amt)), 1, EffectiveCount(cnt)))
    /\ [][resp' = "ok" =>
             /\ DOMAIN quorums' = DOMAIN quorums
             /\ \A d \in DOMAIN quorums : Membership(quorums'[d]) = Membership(quorums[d])
             /\ DOMAIN table' = DOMAIN table
             /\ \A d \in DOMAIN table : Membership(table'[d]) = Membership(table[d])]_vars

\* a selection has just returned, for the second time, the record with the
\* least identifier, while the other record is TRI-eligible for one record
\* and the least amount and was never assigned
C10_Witness ==
    /\ SelectSucceeded
    /\ JustAssigned = {<<"a", "x">>}
    /\ Registry[<<"a", "x">>].AssignmentCount = 2
    /\ TRIEligible(1, 10) = DIDs
    /\ Registry[<<"b", "y">>].AssignmentCount = 0

\* C11: a TRI selection ignores the last-character filter: in every state
\* of the registry a TRI request with any last_char_tid can return exactly
\* the lists, and fails exactly when, the same request with an empty
\* last_char_tid does.
C11_TRIIgnoresLastChar ==
    \A cnt \in Counts, lc \in LastChars \ {<<>>}, amt \in Amounts :
        /\ Returns(cnt, lc, amt, TRI) = Returns(cnt, <<>>, amt, TRI)
        /\ CanFail(cnt, lc, amt, TRI) = CanFail(cnt, <<>>, amt, TRI)

\* a selection has just returned both records, in a state where a TRI request
\* for two records with last_char_tid x succeeds although one identifier only
\* ends in x
C11_Witness ==
    /\ SelectSucceeded
    /\ JustAssigned = DIDs
    /\ Returns(2, <<"x">>, 10, TRI) # {}
    /\ Cardinality(Candidates(1, <<"x">>, 10, RBT)) = 1

\* q1 comes strictly before q2 in the order (assignment_count ascending, then
\* last_assignment ascending)
StrictlyFirst(q1, q2) ==
    \/ q1.AssignmentCount < q2.AssignmentCount
    \/ q1.AssignmentCount = q2.AssignmentCount /\ q1.LastAssignment < q2.LastAssignment

\* C12: with a token filter other than TRI a successful selection returns
\* count eligible records that come first under (assignment_count ascending,
\* last_assignment ascending): no eligible record left out comes strictly
\* before a returned one.
C12_FairOrder ==
    \A cnt \in Counts, lc \in LastChars, amt \in Amounts, ft \in FtNames \ {TRI} :
        \A list \in Returns(cnt, lc, amt, ft) :
            /\ Len(list) = EffectiveCount(cnt)
            /\ \A i \in 1..Len(list) : list[i] \in Candidates(cnt, lc, amt, ft)
            /\ \A d \in Candidates(cnt, lc, amt, ft) :
                  ~InList(d, list) =>
                     \A i \in 1..Len(list) : ~StrictlyFirst(Registry[d], Registry[list[i]])

\* a selection has just returned the record with the greater identifier alone,
\* for the first time, while the other record, live and with the balance for
\* any request, was assigned before
C12_Witness ==
    /\ SelectSucceeded
    /\ JustAssigned = {<<"b", "y">>}
    /\ Registry[<<"b", "y">>].AssignmentCount = 1
    /\ <<"a", "x">> \in DOMAIN Registry
    /\ Registry[<<"a", "x">>].AssignmentCount = 1
    /\ Registry[<<"a", "x">>].Balance = 10
    /\ Registry[<<"a", "x">>].Available
    /\ PingedRecently(Registry[<<"a", "x">>].LastPing, now)

\* the difference between the greatest and the least value of f
Spread(f) ==
    IF DOMAIN f = {} THEN 0
    ELSE LET top == CHOOSE d \in DOMAIN f : \A e \in DOMAIN f : f[e] <= f[d]
             low == CHOOSE d \in DOMAIN f : \A e \in DOMAIN f : f[d] <= f[e]
         IN f[top] - f[low]

\* assignment_count of every record
AssignmentCounts == [d \in DOMAIN Registry |-> Registry[d].AssignmentCount]

\* assignment_count of every record when the selection that is ending, if
\* one is, read it (a database selection keeps the rows it fetched)
CountsBeforeCall ==
    [d \in DOMAIN Registry |->
        IF \E g \in Procs : InList(d, Chosen(g))
        THEN LET g == CHOOSE h \in Procs : InList(d, Chosen(h))
                 i == CHOOSE k \in 1..Len(local[g].quorums) : local[g].quorums[k].DID = d
             IN local[g].quorums[i].AssignmentCount
        ELSE Registry[d].AssignmentCount]

\* every selection of the run that succeeds has the whole pool as its
\* eligible records, more than it asks for
AllEligible ==
    \A cnt \in Counts, amt \in Amounts, ft \in FairFtNames :
        Returns(cnt, <<>>, amt, ft) # {} =>
            /\ Candidates(cnt, <<>>, amt, ft) = FairDIDs
            /\ Cardinality(FairDIDs) >= 2 * EffectiveCount(cnt)

\* C13 (as stated): under repeated selections with a token filter other than
\* TRI, more eligible records than count and no other activity, the spread
\* of assignment_count over the eligible records (greatest minus least) is
\* never greater after a selection than before it.
C13_SpreadNeverIncreases ==
    [][resp' = "ok" => Spread(AssignmentCounts') <= Spread(CountsBeforeCall)]_vars

\* C13 (amended): under the same conditions the spread after a selection is
\* at most the spread before it, or 1 when the counts were all equal: a
\* selection of fewer records than are eligible takes a level pool to spread
\* 1, and never widens a spread of 1 or more.
C13_SpreadBounded ==
    /\ []AllEligible
    /\ [][resp' = "ok" =>
             Spread(AssignmentCounts') <=
                IF Spread(CountsBeforeCall) = 0 THEN 1 ELSE Spread(CountsBeforeCall)]_vars

\* a selection over the pool has just succeeded and the spread is 2: a record
\* assigned twice was left out, one never assigned was returned, another
\* never assigned is still there
C13_Witness ==
    /\ SelectSucceeded
    /\ DOMAIN Registry = FairDIDs
    /\ Spread(AssignmentCounts) = 2
    /\ \E d \in FairDIDs : Registry[d].AssignmentCount = 1 /\ Registry[d].LastAssignment = now

-----------------------------------------------------------------------------
(* Liveness signals and the sweeper *)

\* the step is a run of the sweeper
SweeperRun == MS_CleanupStaleQuorums \/ (Quiet /\ DS_CleanupStaleQuorums)

\* the step is a heartbeat / a confirmation for this identifier
HeartbeatOf(did) == MS_UpdateHeartbeat(did) \/ (Quiet /\ DS_UpdateHeartbeat(did))
ConfirmOf(did) == MS_ConfirmAvailability(did) \/ (Quiet /\ DS_ConfirmAvailability(did))

\* the registered identifiers, and the stored record of one
Registered == IF backend = "memory" THEN DOMAIN quorums ELSE DOMAIN table
Rec(d) == IF backend = "memory" THEN quorums[d] ELSE table[d]

\* minutes since the last liveness signal of a registered record
Age(d) == now - Rec(d).LastPing

\* the record is stale / is in the dead zone between the two thresholds
IsStale(d) == Age(d) > 10
InDeadZone(d) == Age(d) > 5 /\ Age(d) <= 10

\* C14: a run of the sweeper removes no record: the set of registered
\* identifiers is the same before and after it, on both stores.
C14_SweeperKeepsRecords ==
    [][SweeperRun => Registered' = Registered]_vars

\* C15: a record whose last liveness signal is more than 10 minutes old is
\* unavailable after the next run of the sweeper, and a record the sweeper
\* has made unavailable is available and live again after its next heartbeat
\* or confirmation.
C15_DemotedRecovers ==
    /\ [][SweeperRun =>
             \A d \in Registered :
                IsStale(d) => d \notin Registered' \/ ~Rec(d)'.Available]_vars
    /\ [][\A did \in DIDs :
             /\ HeartbeatOf(did) \/ ConfirmOf(did)
             /\ did \in Registered
             /\ ~Rec(did).Available
             => /\ Rec(did)'.Available
                /\ PingedRecently(Rec(did)'.LastPing, now')]_vars

\* C16: after a run of the sweeper every record that was stale is registered
\* with available = false, and every record that was not stale is registered
\* and unchanged in every field.
C16_SweeperEffect ==
    [][SweeperRun =>
          \A d \in Registered :
             /\ d \in Registered'
             /\ IF IsStale(d)
                THEN Rec(d)'.Available = FALSE
                ELSE Rec(d)' = Rec(d)]_vars

C18_OnlySweeperDemotes ==
    [][\A d \in DIDs :
          /\ d \in Registered
          /\ d \in Registered'
          /\ Rec(d).Available
          /\ ~Rec(d)'.Available
          => SweeperRun]_vars

\* both records have been demoted, after selections that returned them
C18_Witness ==
    /\ Registered = DIDs
    /\ \A d \in DIDs : ~Rec(d).Available /\ Rec(d).AssignmentCount > 0

\* C19: a heartbeat for a registered identifier sets that record's last_ping
\* and changes nothing else: its available flag, balance, assignment_count,
\* last_assignment, registration_time and token list, and every other
\* record, are as before, and no record is added or removed.
C19_HeartbeatFrame ==
    [][\A did \in DIDs :
          HeartbeatOf(did) /\ did \in Registered
          => /\ Registered' = Registered
             /\ \A d \in Registered \ {did} : Rec(d)' = Rec(d)
             /\ Rec(did)'.LastPing = now
             /\ Rec(did)'.Available = Rec(did).Available
             /\ Rec(did)'.Balance = Rec(did).Balance
             /\ Rec(did)'.AssignmentCount = Rec(did).AssignmentCount
             /\ Rec(did)'.LastAssignment = Rec(did).LastAssignment
             /\ Rec(did)'.RegistrationTime = Rec(did).RegistrationTime
             /\ Rec(did)'.SupportedTokens = Rec(did).SupportedTokens]_vars

\* a record demoted by the sweeper, registered at an earlier time and assigned
\* before, has had a heartbeat at the present time (its last_ping is now and
\* no other operation leaves a fresh record unavailable)
C19_Witness ==
    \E d \in Registered :
        /\ Rec(d).LastPing = now
        /\ ~Rec(d).Available
        /\ Rec(d).RegistrationTime < now
        /\ Rec(d).AssignmentCount > 0

\* C20: a heartbeat for an identifier that is not registered returns the
\* not-found error and creates no record, on both stores.
C20_HeartbeatNotFound ==
    [][\A did \in DIDs :
          HeartbeatOf(did) /\ did \notin Registered
          => /\ resp' = "not found"
             /\ UNCHANGED <<quorums, table>>]_vars

-----------------------------------------------------------------------------
(* Removal, confirmation and registration *)

\* the step is an unregistration of / a registration for this identifier
UnregisterOf(did) == MS_UnregisterQuorum(did) \/ (Quiet /\ DS_UnregisterQuorum(did))

\* C21: an unregistration of an identifier that is not registered returns the
\* not-found error and leaves the registry as it is, on both stores.
C21_UnregisterNotFound ==
    [][\A did \in DIDs :
          UnregisterOf(did) /\ did \notin Registered
          => /\ resp' = "not found"
             /\ UNCHANGED <<quorums, table>>]_vars

\* C22: a confirmation for an identifier that is not registered returns the
\* not-found error and creates no record; for a registered identifier it
\* succeeds, sets available = true and last_ping = now, and changes no other
\* field of the record, no other record and not the set of records.
C22_ConfirmAvailability ==
    [][\A did \in DIDs :
          ConfirmOf(did)
          => IF did \notin Registered
             THEN /\ resp' = "not found"
                  /\ UNCHANGED <<quorums, table>>
             ELSE /\ resp' # "not found"
                  /\ Registered' = Registered
                  /\ \A d \in Registered \ {did} : Rec(d)' = Rec(d)
                  /\ Rec(did)'.Available = TRUE
                  /\ Rec(did)'.LastPing = now
                  /\ Rec(did)'.Balance = Rec(did).Balance
                  /\ Rec(did)'.AssignmentCount = Rec(did).AssignmentCount
                  /\ Rec(did)'.LastAssignment = Rec(did).LastAssignment
                  /\ Rec(did)'.RegistrationTime = Rec(did).RegistrationTime
                  /\ Rec(did)'.SupportedTokens = Rec(did).SupportedTokens]_vars

\* on the database store a request has just been answered with the not-found
\* error while the other identifier is registered, and that record, assigned
\* before, was confirmed at the present time, after its registration
C22_Witness ==
    /\ backend = "db"
    /\ resp = "not found"
    /\ \E d \in Registered :
          /\ Rec(d).Available
          /\ Rec(d).LastPing = now
          /\ Rec(d).RegistrationTime < now
          /\ Rec(d).AssignmentCount > 0

\* the step is a registration for this identifier
RegisterOf(did) ==
    \E balance \in Balances, tokens \in TokenLists :
       \/ MS_RegisterQuorum(NodeRequest(did, balance, tokens))
       \/ (Quiet /\ DS_RegisterQuorum(NodeRequest(did, balance, tokens)))

\* what a lookup of the identifier returns
GetQuorumByDID(did) ==
    IF backend = "memory" THEN MS_GetQuorumByDID(did) ELSE DS_GetQuorumByDID(did)

\* C23: after an unregistration of an identifier has succeeded a lookup of
\* it returns the not-found error; while a lookup returns that error no
\* selection returns the identifier; and a lookup returns a record again only
\* after a registration of the identifier.
C23_UnregisteredStaysOut ==
    /\ [][\A did \in DIDs :
             UnregisterOf(did) /\ resp' # "not found"
             => GetQuorumByDID(did)'.err = "not found"]_vars
    /\ [](\A did \in DIDs :
             GetQuorumByDID(did).err = "not found"
             => \A cnt \in Counts, lc \in LastChars, amt \in Amounts, ft \in FtNames :
                   \A list \in Returns(cnt, lc, amt, ft) : ~InList(did, list))
    /\ [][\A did \in DIDs :
             /\ GetQuorumByDID(did).err = "not found"
             /\ GetQuorumByDID(did)'.err # "not found"
             => RegisterOf(did)]_vars

\* the row inserted first has been deleted: the only row of the table has the
\* second key, and it has been returned by a selection
C23_Witness ==
    /\ backend = "db"
    /\ \E d \in DIDs :
          /\ DOMAIN table = {d}
          /\ table[d].ID = 2
          /\ table[d].AssignmentCount > 0
          /\ GetQuorumByDID(d).err = "none"
    /\ \E d \in DIDs : GetQuorumByDID(d).err = "not found"

\* C24: after a registration the record is there with available = true and
\* last_ping = the time of the registration, whatever it was before: absent,
\* live, in the dead zone, stale, or made unavailable by the sweeper.
C24_RegisterMakesLive ==
    [][\A did \in DIDs :
          RegisterOf(did)
          => /\ resp' # "not found"
             /\ did \in Registered'
             /\ Rec(did)'.Available = TRUE
             /\ Rec(did)'.LastPing = now]_vars

\* a record registered at an earlier time and returned by a selection is
\* available with last_ping = now, while the other record is stale and has
\* been made unavailable by the sweeper: the clock is at its last value, where
\* the first record was stale too before it was refreshed
C24_Witness ==
    /\ Registered = DIDs
    /\ \E d \in DIDs :
          /\ Rec(d).Available
          /\ Rec(d).LastPing = now
          /\ Rec(d).RegistrationTime = 0
          /\ Rec(d).AssignmentCount > 0
    /\ \E d \in DIDs : IsStale(d) /\ ~Rec(d).Available

\* the step is the handling of this registration request
RegisterRequest(req) == QH_RegisterQuorum(req) \/ DBH_RegisterQuorum(req)

\* the token list of a record, as the store holds it
StoredTokens(tokens) == IF backend = "memory" THEN tokens ELSE Marshal(tokens)

\* C25: a registration that succeeds for an identifier that has a record
\* sets the record's peer_id, balance, did_type, available flag, last_ping and
\* token list from the request and leaves its registration_time,
\* assignment_count and last_assignment, and every other record, as they are;
\* and no step changes the registration_time of a record that stays.
C25_ReRegistrationFrame ==
    /\ [][\A req \in RegRequests :
             /\ RegisterRequest(req)
             /\ resp' = "none"
             /\ req.DID \in Registered
             => /\ Registered' = Registered
                /\ \A d \in Registered \ {req.DID} : Rec(d)' = Rec(d)
                /\ Rec(req.DID)'.PeerID = req.PeerID
                /\ Rec(req.DID)'.Balance = req.Balance
                /\ Rec(req.DID)'.DIDType = req.DIDType
                /\ Rec(req.DID)'.Available = TRUE
                /\ Rec(req.DID)'.LastPing = now
                /\ Rec(req.DID)'.SupportedTokens = StoredTokens(req.SupportedTokens)
                /\ Rec(req.DID)'.RegistrationTime = Rec(req.DID).RegistrationTime
                /\ Rec(req.DID)'.AssignmentCount = Rec(req.DID).AssignmentCount
                /\ Rec(req.DID)'.LastAssignment = Rec(req.DID).LastAssignment]_vars
    /\ [][\A d \in Registered \cap Registered' :
             Rec(d)'.RegistrationTime = Rec(d).RegistrationTime]_vars

\* a record registered at time 0 and returned by a selection has been
\* registered again, at time 5, with another peer_id, balance, did_type and
\* token list
C25_Witness ==
    \E d \in Registered :
        /\ Rec(d).RegistrationTime = 0
        /\ Rec(d).AssignmentCount = 1
        /\ Rec(d).LastAssignment = 0
        /\ Rec(d).LastPing = RegNow
        /\ Rec(d).PeerID = "p2"
        /\ Rec(d).Balance = 20
        /\ Rec(d).DIDType = 2
        /\ Rec(d).SupportedTokens = StoredTokens(<<RBT, TRI>>)

\* C26: every record has balance >= 0, whatever balance the registration and
\* balance requests carry.
C26_BalanceNonNegative ==
    \A d \in Registered : Rec(d).Balance >= 0

\* the records whose balance the step changes
BalanceChanged ==
    {d \in DOMAIN table \cap DOMAIN table' : table'[d].Balance # table[d].Balance}

\* C28: on the database store a step appends a row to balance_history exactly
\* when it changes the balance of an existing record (a registration for an
\* existing identifier, or a balance update), the row holding the identifier,
\* the balance before and the balance after; a step that changes no balance,
\* or whose request fails, appends none, and no row is changed or removed.
C28_BalanceEvents ==
    [][backend = "db" =>
          /\ \A d \in BalanceChanged :
                /\ Len(balanceHistory') = Len(balanceHistory) + 1
                /\ SubSeq(balanceHistory', 1, Len(balanceHistory)) = balanceHistory
                /\ LET row == balanceHistory'[Len(balanceHistory')]
                   IN /\ row.QuorumDID = d
                      /\ row.OldBalance = table[d].Balance
                      /\ row.NewBalance = table'[d].Balance
          /\ BalanceChanged = {} => balanceHistory' = balanceHistory
          /\ resp' \in {"invalid", "not found", "storage error"}
                => balanceHistory' = balanceHistory]_vars

\* C29: on the database store transaction_history gets one row when a
\* selection returns its list, holding the identifiers returned in the order
\* returned, the amount and the amount divided by the count; a selection that
\* fails adds none; and no step changes or removes a row.
C29_OneRowPerSelection ==
    /\ [][resp' = "ok" =>
             history' = Append(history,
                               TransactionHistory(local["g1"].transactionAmount,
                                                  Chosen("g1"), local["g1"].count))]_vars
    /\ [][resp' # "ok" => history' = history]_vars
    /\ [][Len(history') >= Len(history)
          /\ SubSeq(history', 1, Len(history)) = history]_vars

\* the number of records the registry holds for an identifier
RecordsOf(did) ==
    IF backend = "memory"
    THEN IF did \in DOMAIN quorums THEN 1 ELSE 0
    ELSE Cardinality(RowsOf(did))

\* C27: however the registrations of the two goroutines interleave, the
\* registry holds at most one record for an identifier.
C27_OneRecordPerIdentifier ==
    \A did \in DIDs : RecordsOf(did) <= 1

\* two goroutines looked an identifier up and found no row, one has inserted
\* its row and the insert of the other has just been refused
C27_Witness ==
    /\ backend = "db"
    /\ resp = "storage error"
    /\ \E did \in DIDs : RecordsOf(did) = 1

\* C30: whenever the database store has served the request the memory store
\* served before it, it returns what the memory store returned (success, the
\* not-found error, or the error of a selection that finds too few records)
\* and the two stores hold records for the same identifiers.
C30_SameOutcomeSameRecords ==
    [][backend = "db" /\ backend' = "memory"
       => /\ resp' = resp
          /\ DOMAIN table' = DOMAIN quorums']_vars

-----------------------------------------------------------------------------
(* The selection error, the health summary and storage failures *)

\* the records that pass the filters of a selection for op, by the rules of
\* the selection contract: live, balance at least amount / count, listing the
\* requested token (an empty list standing for RBT) when one is requested,
\* and ending in the requested character unless the token is TRI
Passing(op) ==
    {d \in DOMAIN Registry :
        /\ Registry[d].Available
        /\ now - Registry[d].LastPing < LivenessWindow
        /\ Registry[d].Balance * op.count >= op.transactionAmount
        /\ \/ op.ftName = <<>>
           \/ InList(op.ftName, Registry[d].SupportedTokens)
           \/ Registry[d].SupportedTokens = <<>> /\ op.ftName = RBT
        /\ \/ op.lastCharTID = <<>>
           \/ op.ftName = TRI
           \/ d[Len(d)] = op.lastCharTID[1]}

\* C31: when a selection for count > 0 records fails for lack of candidates,
\* its error reports found = the number of records that pass all filters,
\* needed = count and required balance = transactionAmount / count.
C31_ErrorReportsFound ==
    resp = "error" /\ local["g1"].count > 0
        => LET op == local["g1"]
           IN /\ op.err.found = Cardinality(Passing(op))
              /\ op.err.need = op.count
              /\ op.err.requiredBalance[1] * op.count
                    = op.transactionAmount * op.err.requiredBalance[2]

\* the step is a GetHealthStatus call served whole
HealthCall == MS_GetHealthStatus("g1") \/ DS_GetHealthStatus("g1")

\* the registered records that are live: available, last ping less than five
\* minutes old
Live == {d \in Registered : Rec(d).Available /\ now - Rec(d).LastPing < LivenessWindow}

\* C32: GetHealthStatus returns total = the number of registered records and
\* live = the number of records with available = true and a last ping less
\* than five minutes old, and changes no record.
C32_HealthSummary ==
    [][HealthCall
          => /\ local'["g1"].health = HealthStatus(Cardinality(Registered),
                                                   Cardinality(Live))
             /\ UNCHANGED <<quorums, table>>]_vars

\* a summary has counted two records of which one is live: the other was
\* pinged five minutes ago or earlier, or is flagged unavailable
C32_Witness ==
    /\ "health" \in DOMAIN local["g1"]
    /\ local["g1"].health = HealthStatus(2, 1)
    /\ Cardinality(Registered) = 2
    /\ Cardinality(Live) = 1

\* C38: every summary returned has live <= total, also when the call runs
\* while nodes register and unregister.
C38_LiveAtMostTotal ==
    "health" \in DOMAIN local["g1"]
        => local["g1"].health.AvailableQuorums <= local["g1"].health.TotalQuorums

\* C33: on the database store a selection reports success only if its query,
\* the update of every row it returns and the insert into transaction_history
\* all went through: when it returns its list every returned row has the
\* fetched assignment_count plus one and last_assignment = now, and the audit
\* table has one more row; a failed statement makes it return a storage error.
C33_SelectPropagatesStorageErrors ==
    [][DSA_RecordHistory("g1")
          => /\ Len(history') = Len(history) + 1
             /\ \A i \in 1..Len(local["g1"].quorums) :
                   LET q == local["g1"].quorums[i]
                   IN /\ table'[q.DID].AssignmentCount = q.AssignmentCount + 1
                      /\ table'[q.DID].LastAssignment = now]_vars

\* C34: a storage error during one run of the sweeper never stops it: the
\* goroutine is always at its receive or in a run, and every tick that the
\* ticker delivers, also after a failed run, is followed by a run.
C34_SweeperSurvivesErrors ==
    /\ [](pc["g2"] \in {"idle", "sweep"})
    /\ (SweeperStarted /\ local["g2"].C = 1) ~> (pc["g2"] = "sweep")

\* the run before failed, and a later tick has started the next run
C34_Witness ==
    /\ SweeperStarted
    /\ local["g2"].failed
    /\ pc["g2"] = "sweep"

\* a record without its assignment metadata
Unassigned(r) == [r EXCEPT !.AssignmentCount = 0, !.LastAssignment = ZeroTime]

\* the records the step has changed
Changed == {d \in Registered : Rec(d)' # Rec(d)}

\* the step belongs to a selection that succeeds: the memory store's call
\* returning its list, a statement of the database store's after its query
SelectionStep ==
    \/ backend = "memory" /\ resp' = "ok"
    \/ backend = "db" /\ pc["g1"] = "update"

\* the lists a successful call can return in the current state, as sets
ReturnedSets ==
    {{list[i] : i \in 1..Len(list)} :
        list \in UNION {Returns(cnt, <<>>, amt, ft) :
                           cnt \in Counts, amt \in Amounts, ft \in FairFtNames}}

\* C35: a successful selection changes only assignment_count and
\* last_assignment of the records it returns: every other field of every
\* record and every field of the records not returned stay as they are, and
\* no record is created or removed.
C35_SelectFrame ==
    [][SelectionStep
          => /\ Registered' = Registered
             /\ \A d \in Registered : Unassigned(Rec(d)') = Unassigned(Rec(d))
             /\ IF backend = "memory"
                THEN Changed \in ReturnedSets
                ELSE Changed \subseteq {Chosen("g1")[i] : i \in 1..Len(Chosen("g1"))}]_vars

\* a selection has just returned its list while a registered record has never
\* been assigned and another has been assigned twice
C35_Witness ==
    /\ resp = "ok"
    /\ \E d \in Registered : Rec(d).AssignmentCount = 0
    /\ \E d \in Registered : Rec(d).AssignmentCount = 2

\* C36: in the memory store, after any sequence of registrations,
\* unregistrations and sweeper runs, every entry of the peer index maps a
\* peer id to the identifier of an existing record whose peer_id is that
\* peer id, and the peer_id of every existing record has an entry.
C36_IndexConsistent ==
    /\ \A p \in DOMAIN peerIndex :
          /\ peerIndex[p] \in DOMAIN quorums
          /\ quorums[peerIndex[p]].PeerID = p
    /\ \A d \in DOMAIN quorums : quorums[d].PeerID \in DOMAIN peerIndex

\* the rows of balance_history of a node, oldest first
RECURSIVE EventsOf(_, _)
EventsOf(did, rows) ==
    IF rows = <<>> THEN <<>>
    ELSE IF Head(rows).QuorumDID = did
    THEN <<Head(rows)>> \o EventsOf(did, Tail(rows))
    ELSE EventsOf(did, Tail(rows))

\* C37: on the database store the balance events of each node form a chain,
\* also when balance updates and registrations run concurrently: the old
\* value of each event is the new value of the node's event before it, and,
\* once no request is in flight, the new value of the node's last event is
\* the balance stored for the node.
C37_BalanceChain ==
    \A did \in DIDs :
        LET events == EventsOf(did, balanceHistory)
        IN /\ \A i \in 1..(Len(events) - 1) :
                 events[i + 1].OldBalance = events[i].NewBalance
           /\ Quiet /\ events # <<>> /\ did \in DOMAIN table
                 => events[Len(events)].NewBalance = table[did].Balance

\* C39: a balance update for a stored node changes the balance of that row
\* and nothing else: last_ping and the available flag of the row stay, and so
\* do the other rows; a row whose node only reports balances therefore grows
\* older than the stale threshold, and a run of the sweeper then demotes it.
C39_BalanceUpdateFrame ==
    [][/\ \A did \in DIDs, balance \in Balances :
             did \in DOMAIN table /\ DS_UpdateQuorumBalance(did, balance)
             => /\ DOMAIN table' = DOMAIN table
                /\ table'[did].Balance = balance
                /\ table'[did].LastPing = table[did].LastPing
                /\ table'[did].Available = table[did].Available
                /\ [table'[did] EXCEPT !.Balance = 0] = [table[did] EXCEPT !.Balance = 0]
                /\ \A d \in DOMAIN table \ {did} : table'[d] = table[d]
                /\ assigned' = assigned
       /\ DS_CleanupStaleQuorums
             => \A d \in DOMAIN table :
                   /\ table[d].Balance # ConcBalance
                   /\ table[d].LastPing < now - StaleThreshold
                   => ~table'[d].Available]_vars

\* a node that registered and then reported another balance has been demoted
\* by the sweeper, its last ping still that of its registration
C39_Witness ==
    \E d \in DOMAIN table :
        /\ table[d].Balance # ConcBalance
        /\ table[d].LastPing = table[d].RegistrationTime
        /\ table[d].LastPing < now - StaleThreshold
        /\ ~table[d].Available

\* C40: on both stores a selection for count <= 0 behaves as the same
\* selection for count = 7: in every state it can return the same lists and
\* fail in the same cases; when it succeeds it has assigned seven records,
\* each with balance >= transactionAmount / 7, and when it fails it has
\* changed no record and its error names 7 and transactionAmount / 7.
C40_DefaultCount ==
    /\ [](\A cnt \in DefaultCounts, amt \in DefaultAmounts, ft \in DefaultFtNames :
            cnt <= 0
            => /\ Returns(cnt, <<>>, amt, ft) = Returns(7, <<>>, amt, ft)
               /\ CanFail(cnt, <<>>, amt, ft) = CanFail(7, <<>>, amt, ft))
    /\ [][resp' \in {"ok", "error"} /\ local'["g1"].count <= 0
            => LET op == local'["g1"]
               IN /\ Registered' = Registered
                  /\ IF resp' = "ok"
                     THEN /\ Cardinality(Changed) = 7
                          /\ \A d \in Changed :
                                /\ Rec(d).Balance * 7 >= op.transactionAmount
                                /\ Rec(d)'.AssignmentCount = Rec(d).AssignmentCount + 1
                     ELSE /\ Changed = {}
                          /\ op.err.need = 7
                          /\ op.err.requiredBalance[1] * 7
                                = op.transactionAmount * op.err.requiredBalance[2]]_vars

\* a selection for count 0 has returned seven of eight records, all eight
\* holding a seventh of the amount
C40_Witness ==
    /\ resp = "ok"
    /\ local["g1"].count = 0
    /\ local["g1"].transactionAmount = 70
    /\ Cardinality(Registered) = 8
    /\ Cardinality({d \in Registered :
                       Rec(d).AssignmentCount = DefaultShape(d)[1] + 1}) = 7

-----------------------------------------------------------------------------
(* Concurrent requests *)

\* the goroutine g has chosen the record with this view and not returned yet
Chose(g, q) == \E i \in 1..Len(local[g].quorums) : local[g].quorums[i] = q

\* C3: on the memory store the methods run one at a time: a goroutine inside
\* a method holds the mutex, no other goroutine changes the map while it
\* does, and a selection increments exactly the counters it sorted by (the
\* chosen records are still registered and unchanged when the assignment loop
\* runs), so two selections never act on one pre-increment view.
C3_MemoryStoreSerializes ==
    /\ [](backend = "memory" =>
            \A g \in Procs :
               /\ pc[g] # "idle" <=> mu = g
               /\ pc[g] = "assign" =>
                     \A i \in 1..Len(local[g].quorums) :
                        /\ local[g].quorums[i].DID \in DOMAIN quorums
                        /\ Seen(local[g].quorums[i].DID) = local[g].quorums[i])
    /\ [][backend = "memory" =>
            \A g \in Procs : mu = g /\ pc'[g] = pc[g] => quorums' = quorums]_vars

\* a goroutine is between the sort and the assignment loop of a selection of
\* two records, one of them assigned before, after the clock has moved
C3_Witness ==
    /\ backend = "memory"
    /\ now > 0
    /\ \E g \in Procs :
          /\ pc[g] = "assign"
          /\ Len(local[g].quorums) = 2
          /\ \E i \in 1..2 : local[g].quorums[i].AssignmentCount > 0

\* C4: on the database store, when two selections have both fetched a row
\* with the same assignment_count (each read it before the other wrote) and
\* both have run their updates, the row's assignment_count is one above the
\* value read, not two: one increment is lost, and the node is in both lists.
C4_LostUpdate ==
    backend = "db" =>
        \A q \in {local["g1"].quorums[i] : i \in 1..Len(local["g1"].quorums)} :
            (/\ Chose("g2", q)
             /\ \A g \in Procs : pc[g] = "update" /\ local[g].i > Len(local[g].quorums))
            => \A d \in DOMAIN table :
                  table[d].ID = q.ID => table[d].AssignmentCount = q.AssignmentCount + 1

\* two selections have returned the same node, registered all along, and its
\* assignment_count is 1
C4_Witness ==
    /\ backend = "db"
    /\ \A g \in Procs : pc[g] = "idle"
    /\ Len(history) = 2
    /\ \E d \in DOMAIN table : assigned[d] = 2 /\ table[d].AssignmentCount = 1

\* C5: assignment_count is 0 when a record is first registered and never
\* decreases while the record exists, on both stores.
C5_NeverDecreases ==
    [][\A d \in DIDs :
          /\ d \in DOMAIN quorums' =>
                IF d \in DOMAIN quorums
                THEN quorums'[d].AssignmentCount >= quorums[d].AssignmentCount
                ELSE quorums'[d].AssignmentCount = 0
          /\ d \in DOMAIN table' =>
                IF d \in DOMAIN table /\ table[d].ID = table'[d].ID
                THEN table'[d].AssignmentCount >= table[d].AssignmentCount
                ELSE table'[d].AssignmentCount = 0]_vars

\* C6: a successful selection increments the assignment_count of each record
\* it returns by exactly 1 and sets last_assignment to the time of the
\* selection, so that, no selection being under way, every record's
\* assignment_count is the number of successful selections that returned it
\* since it was registered.
C6_CountsSelections ==
    /\ []((\A g \in Procs : pc[g] = "idle") =>
             \A d \in DOMAIN Registry : Registry[d].AssignmentCount = assigned[d])
    /\ [][\A g \in Procs, result \in Results :
             MSC_Assign(g, result) =>
                \A i \in 1..Len(result.quorums) :
                   LET d == result.quorums[i]
                   IN /\ quorums'[d].AssignmentCount = quorums[d].AssignmentCount + 1
                      /\ quorums'[d].LastAssignment = now]_vars

====
